---- MODULE Spec2Model ----
(***************************************************************************)
(* Governance voting engine of the Eminence DAO bot (src/bot.py).          *)
(*                                                                         *)
(* The module follows one row of the proposals table (one proposal id)     *)
(* together with its rows of the votes table, the live administrator list  *)
(* of its group and the handlers (create_proposal, cast_vote,              *)
(* cancel_proposal) that act on it.  A handler is a coroutine: it runs     *)
(* atomically from one await of a storage or platform call to the next,    *)
(* and handlers interleave at those awaits.                                *)
(*                                                                         *)
(* Weights and scores are Python floats (IEEE-754 binary64).  They are     *)
(* modelled bit-exactly as fixed-point numbers in units of 2^-53, held in  *)
(* three limbs of 20 bits, with round-to-nearest-even after every          *)
(* division and addition.                                                  *)
(***************************************************************************)
EXTENDS Integers, Sequences, FiniteSets, TLC

(***************************************************************************)
(* Bounds of the model.                                                    *)
(***************************************************************************)
\* largest number of non-owner human administrators in an evaluated roster
MaxAdmins == 12

(***************************************************************************)
(* Python float arithmetic (binary64) on the values the evaluation uses:   *)
(* 0.0 and numbers in [1, 128).  A float is <<hi, mid, lo>>, standing for  *)
(* (hi * 2^40 + mid * 2^20 + lo) * 2^-53.                                  *)
(***************************************************************************)
Limb == 2^20

FZero == <<0, 0, 0>>

\* the float of a small non-negative integer literal (50.0, 100.0)
FInt(n) == <<n * 2^13, 0, 0>>

\* carries propagated: every limb below the first brought under 2^20
FNorm(h, m, l) ==
    LET m1 == m + (l \div Limb)
    IN  <<h + (m1 \div Limb), m1 % Limb, l % Limb>>

RECURSIVE BitLen(_)
\* number of significant bits of a natural number below 2^31
BitLen(n) == IF n = 0 THEN 0 ELSE 1 + BitLen(n \div 2)

\* number of significant bits of a three-limb value
FBits(x) ==
    IF x[1] > 0 THEN 40 + BitLen(x[1])
    ELSE IF x[2] > 0 THEN 20 + BitLen(x[2])
    ELSE BitLen(x[3])

\* round-to-nearest, ties-to-even, of an exact value x (plus a non-zero
\* fraction below the last unit when sticky) to 53 significant bits
FRound(x, sticky) ==
    LET d == FBits(x) - 53
    IN  IF d <= 0 THEN x
        ELSE LET unit == 2^d
                 half == 2^(d - 1)
                 low  == x[3] % unit
                 odd  == (x[3] \div unit) % 2 = 1
                 up   == \/ low > half
                         \/ low = half /\ (sticky \/ odd)
             IN  FNorm(x[1], x[2], (x[3] - low) + (IF up THEN unit ELSE 0))

\* x + y on floats
FAdd(x, y) == FRound(FNorm(x[1] + y[1], x[2] + y[2], x[3] + y[3]), FALSE)

\* n / a on floats, for the float of an integer n < 128 and an integer a >= 1
\* with n / a >= 1: long division of n * 2^53 by a, limb by limb
FDiv(n, a) ==
    LET h  == n * 2^13
        q2 == h \div a
        r2 == h % a
        q1 == (r2 * Limb) \div a
        r1 == (r2 * Limb) % a
        q0 == (r1 * Limb) \div a
        r0 == (r1 * Limb) % a
    IN  FRound(<<q2, q1, q0>>, r0 # 0)

\* x >= y on floats
FGeq(x, y) ==
    \/ x[1] > y[1]
    \/ x[1] = y[1] /\ x[2] > y[2]
    \/ x[1] = y[1] /\ x[2] = y[2] /\ x[3] >= y[3]

(***************************************************************************)
(* Users.  The administrator list of the group holds the owner (the member *)
(* whose status is OWNER), human administrators and bots.                  *)
(***************************************************************************)
\* the value of owner_id when no member has status OWNER
None == 0

Admins == 1..MaxAdmins

\* the member whose status is ChatMemberStatus.OWNER while it is in the list
OwnerUser == MaxAdmins + 1

\* a member with user.is_bot
BotUser == MaxAdmins + 2

\* the user whose id is BOT_CREATOR_ID (line 38), when the deployment names
\* one; that user need not be a member of the group
CreatorUser == MaxAdmins + 3

BOT_CREATOR_ID == CreatorUser

Users == Admins \cup {OwnerUser, BotUser, CreatorUser}

is_bot(u) == u = BotUser

ActionTypes == {"config", "blacklist_add", "blacklist_remove",
                "suggestion_status", "report_status"}

Choices == {"yes", "no"}

(***************************************************************************)
(* The evaluation of cast_vote, lines 303-343, as functions of the         *)
(* administrator list fetched by the handler (current_admins, a set of     *)
(* user ids), the rows of the votes table and the proposal's action_type.  *)
(***************************************************************************)
\* current_admin_ids, with the member whose status is OWNER left out
current_admin_ids_without_owner(current_admins) ==
    {a \in current_admins : ~is_bot(a) /\ a # OwnerUser}

\* current_admin_ids, with the bots of the list kept
current_admin_ids_with_bots(current_admins) == current_admins

\* line 303: [a.user.id for a in current_admins if not a.user.is_bot]
current_admin_ids(current_admins) == {a \in current_admins : ~is_bot(a)}

\* SELECT user_id FROM votes WHERE proposal_id = pid
voted_ids(vts) == {u \in DOMAIN vts : vts[u] # "none"}

valid_votes_count(vts, current_admins) ==
    Cardinality({uid \in voted_ids(vts) : uid \in current_admin_ids(current_admins)})

\* missing, with every ballot counted as valid whether or not its voter is in
\* the fetched roster
missing_any_ballot(vts, current_admins) ==
    Cardinality(current_admin_ids(current_admins)) - Cardinality(voted_ids(vts))

missing(vts, current_admins) ==
    Cardinality(current_admin_ids(current_admins)) - valid_votes_count(vts, current_admins)

owner_id(current_admins) ==
    IF OwnerUser \in current_admins THEN OwnerUser ELSE None

admins_except_owner(current_admins) ==
    {a \in current_admins : a # owner_id(current_admins) /\ ~is_bot(a)}

admin_pool_count(current_admins) == Cardinality(admins_except_owner(current_admins))

\* prop['action_type'].startswith('blacklist_')
IsBlacklist(action_type) == action_type \in {"blacklist_add", "blacklist_remove"}

\* owner_weight, with 50.0 for the owner whether or not other administrators exist
owner_weight_half(current_admins, action_type) ==
    IF IsBlacklist(action_type) THEN FZero
    ELSE IF owner_id(current_admins) = None THEN FZero
    ELSE FInt(50)

owner_weight(current_admins, action_type) ==
    IF IsBlacklist(action_type) THEN FZero
    ELSE IF admin_pool_count(current_admins) = 0 /\ owner_id(current_admins) # None
         THEN FInt(100)
    ELSE IF owner_id(current_admins) = None THEN FZero
    ELSE FInt(50)

\* admin_weight, with the non-blacklist weights for every action_type
admin_weight_any_type(current_admins, action_type) ==
    LET n == admin_pool_count(current_admins)
    IN  IF n = 0 /\ owner_id(current_admins) # None THEN FZero
        ELSE IF owner_id(current_admins) = None
             THEN (IF n > 0 THEN FDiv(100, n) ELSE FZero)
        ELSE (IF n > 0 THEN FDiv(50, n) ELSE FZero)

\* admin_weight, with the administrators sharing 50.0 also when there is no owner
admin_weight_always_half(current_admins, action_type) ==
    LET n == admin_pool_count(current_admins)
    IN  IF IsBlacklist(action_type)
        THEN (IF n > 0 THEN FDiv(100, n) ELSE FZero)
        ELSE (IF n > 0 THEN FDiv(50, n) ELSE FZero)

\* admin_weight, with 100.0 shared by the administrators also beside an owner
admin_weight_unshared(current_admins, action_type) ==
    LET n == admin_pool_count(current_admins)
    IN  IF n > 0 THEN FDiv(100, n) ELSE FZero

admin_weight(current_admins, action_type) ==
    LET n == admin_pool_count(current_admins)
    IN  IF IsBlacklist(action_type)
        THEN (IF n > 0 THEN FDiv(100, n) ELSE FZero)
        ELSE IF n = 0 /\ owner_id(current_admins) # None THEN FZero
        ELSE IF owner_id(current_admins) = None
             THEN (IF n > 0 THEN FDiv(100, n) ELSE FZero)
        ELSE (IF n > 0 THEN FDiv(50, n) ELSE FZero)

\* RowWeight, with a yes counted whether or not its voter is in the fetched roster
RowWeight_any_voter(uid, choice, current_admins, action_type) ==
    IF choice = "yes"
    THEN IF uid = owner_id(current_admins) /\ ~IsBlacklist(action_type)
         THEN owner_weight(current_admins, action_type)
         ELSE IF uid # owner_id(current_admins)
              THEN admin_weight(current_admins, action_type)
              ELSE FZero
    ELSE FZero

\* what one row of all_votes adds to score_yes (the body of the for loop)
RowWeight(uid, choice, current_admins, action_type) ==
    IF uid \in current_admin_ids(current_admins) /\ choice = "yes"
    THEN IF uid = owner_id(current_admins) /\ ~IsBlacklist(action_type)
         THEN owner_weight(current_admins, action_type)
         ELSE IF uid # owner_id(current_admins)
              THEN admin_weight(current_admins, action_type)
              ELSE FZero
    ELSE FZero

RECURSIVE SumRows(_, _, _, _, _)
\* the for loop over all_votes from row i on, score_yes being acc so far
SumRows(rows, i, acc, current_admins, action_type) ==
    IF i > Len(rows) THEN acc
    ELSE LET s == FAdd(acc, RowWeight(rows[i][1], rows[i][2], current_admins, action_type))
         IN  IF s[1] >= 0
             THEN SumRows(rows, i + 1, s, current_admins, action_type)
             ELSE s

score_yes(rows, current_admins, action_type) ==
    SumRows(rows, 1, FZero, current_admins, action_type)

RECURSIVE SortedSeq(_)
\* the elements of a set of user ids in increasing order
SortedSeq(S) ==
    IF S = {} THEN <<>>
    ELSE LET m == CHOOSE x \in S : \A y \in S : x <= y
         IN  <<m>> \o SortedSeq(S \ {m})

\* s with element e inserted after its first j elements
InsertAt(s, j, e) == SubSeq(s, 1, j) \o <<e>> \o SubSeq(s, j + 1, Len(s))

\* The orders in which SELECT user_id, vote FROM votes may return the rows (the
\* query has no ORDER BY).  Every non-owner row adds the same float, or 0.0, so
\* the sum depends only on where the owner's row falls among them.
all_votes(vts) ==
    LET others == SortedSeq(voted_ids(vts) \ {OwnerUser})
        rowsOf == [i \in 1..Len(others) |-> <<others[i], vts[others[i]]>>]
    IN  IF OwnerUser \in voted_ids(vts)
        THEN {InsertAt(rowsOf, j, <<OwnerUser, vts[OwnerUser]>>) : j \in 0..Len(others)}
        ELSE {rowsOf}

\* score_yes >= 50.0
Threshold == 50

\* timedelta(days=30)
ExpiryDays == 30

ExpiryHours == ExpiryDays * 24

OWNER_ONLY_CONFIGS == {"engagement_tracking"}

(***************************************************************************)
(* State.                                                                  *)
(***************************************************************************)
VARIABLES
    status,     \* proposals.status of the row; "absent" before its INSERT
    prop,       \* the row's columns that never change after the INSERT
    votes,      \* votes rows of the proposal: user_id -> vote, "none" = no row
    roster,     \* the group's administrator list on the platform, now
    age,        \* now - created_at, in hours (0 while there is no row)
    effects,    \* how many times the proposal's effect was applied to the store
    hs,         \* the handlers: position and local variables of each
    sent,       \* the last reply_text or group send_message the bot issued
    last_pinged_at, \* proposals.last_pinged_at as an age in hours; Never = NULL
    reminded,   \* the users who were sent a reminder DM by ping_voters
    decision,   \* the governance_decisions row of governance.py
    twin        \* the record of a second run of the same commands (SpecSecret)

\* the columns of the proposal row and the rest of the store
vars == <<status, prop, votes, roster, age, effects, hs, sent, last_pinged_at,
          reminded, decision, twin>>

\* what only ping_voters, governance.py and the comparison of two runs touch
aside == <<last_pinged_at, reminded, decision, twin>>

\* number of handlers that may be in flight at once
NumHandlers == 2

\* number of human administrators, besides the owner, that the group may have
NumAdmins == 1

Handlers == 1..NumHandlers

\* the people who send commands to the bot
People == (1..NumAdmins) \cup {OwnerUser}

\* the ages at which the clock is observed
TimePoints == {0, ExpiryHours, ExpiryHours + 1}

\* what the config and blacklist commands pass to create_proposal
ProposalKinds ==
    {<<"config", "anti_link">>, <<"config", "engagement_tracking">>,
     <<"blacklist_add", "word">>, <<"blacklist_remove", "word">>}

NoProp == [action_type |-> "none", key_target |-> "none", proposer_id |-> None]

Idle == [pc |-> "idle", uid |-> None, vote |-> "none", auto |-> FALSE,
         current_admins |-> {}]

\* last_pinged_at IS NULL
Never == 0 - 1

\* the callers of governance.py's cast_vote and the weights they pass
NumVoters == 2

GovVoters == 1..NumVoters

GovWeights == {1, 2}

\* no cast_vote of governance.py is in flight
NoCast == [pc |-> "idle", voter |-> None, vote_value |-> "none", weight |-> 0]

\* no governance_decisions row, no governance_votes rows; reply is what the
\* last cast_vote returned
NoDecision == [status |-> "absent", due |-> FALSE,
               vote_value |-> [v \in GovVoters |-> "none"],
               weight |-> [v \in GovVoters |-> 0],
               cast |-> NoCast, reply |-> "none"]

NoVotes == [u \in Users |-> "none"]

\* no second run is being compared
NoTwin == [phase |-> "off", script |-> <<>>, at |-> 0,
           cur |-> [uid |-> None, vote |-> "none", env |-> "ok"],
           first |-> <<>>, second |-> <<>>, out |-> "absent"]

Terminal == {"passed", "rejected", "expired", "cancelled"}

Init ==
    /\ status = "absent"
    /\ prop = NoProp
    /\ votes = NoVotes
    /\ roster \in SUBSET People
    /\ age = 0
    /\ effects = 0
    /\ hs = [h \in Handlers |-> Idle]
    /\ sent = "none"
    /\ last_pinged_at = Never
    /\ reminded = {}
    /\ decision = NoDecision
    /\ twin = NoTwin

(***************************************************************************)
(* The environment: the clock and the platform's administrator list.       *)
(***************************************************************************)
\* Time passes for the row: age moves to the next observed instant.  The
\* instants are days apart and a handler's awaits are bounded by the network
\* timeouts (seconds), so no instant falls inside a handler's run.
Tick ==
    /\ status # "absent"
    /\ \A h \in Handlers : hs[h] = Idle
    /\ \E t \in TimePoints :
          /\ t > age
          /\ \A t2 \in TimePoints : t2 > age => t <= t2
          /\ age' = t
    /\ UNCHANGED <<status, prop, votes, roster, effects, hs, sent, aside>>

RosterJoin(u) ==
    /\ u \notin roster
    /\ roster' = roster \cup {u}
    /\ UNCHANGED <<status, prop, votes, age, effects, hs, sent, aside>>

\* RosterLeave, as if the departure of the last non-voting member closed the
\* vote
RosterLeave_evaluates(u) ==
    /\ u \in roster
    /\ roster' = roster \ {u}
    /\ status' = IF status = "pending" /\ missing(votes, roster') = 0
                 THEN "rejected" ELSE status
    /\ UNCHANGED <<prop, votes, age, effects, hs, sent, aside>>

RosterLeave(u) ==
    /\ u \in roster
    /\ roster' = roster \ {u}
    /\ UNCHANGED <<status, prop, votes, age, effects, hs, sent, aside>>

(***************************************************************************)
(* create_proposal, from the config and blacklist commands.                *)
(***************************************************************************)
\* is_admin(update): the sender is the bot's creator, or the sender's status
\* is ADMINISTRATOR or OWNER
is_admin(u) == u = BOT_CREATOR_ID \/ u \in roster

\* is_group_owner, satisfied by every administrator
is_group_owner_any_admin(u) == u = BOT_CREATOR_ID \/ u \in roster

\* is_group_owner(update): the sender is the bot's creator, or the sender's
\* status is OWNER
is_group_owner(u) == u = BOT_CREATOR_ID \/ (u \in roster /\ u = OwnerUser)

\* create_proposal, with the proposer's automatic ballot cast as no
create_proposal_casts_no(h, u, kind) ==
    /\ hs[h] = Idle
    /\ status = "absent"
    /\ is_admin(u)
    /\ (kind[1] = "config" /\ kind[2] \in OWNER_ONLY_CONFIGS) => is_group_owner(u)
    /\ status' = "pending"
    /\ prop' = [action_type |-> kind[1], key_target |-> kind[2],
                proposer_id |-> u]
    /\ hs' = [hs EXCEPT ![h] = [Idle EXCEPT !.pc = "cr_notify", !.uid = u,
                                            !.vote = "no", !.auto = TRUE]]
    /\ UNCHANGED <<votes, roster, age, effects, sent, aside>>

\* The command's is_admin check, the owner-only check and the INSERT.  The
\* checks read the roster and write nothing, so they are taken with the INSERT.
create_proposal(h, u, kind) ==
    /\ hs[h] = Idle
    /\ status = "absent"
    /\ is_admin(u)
    /\ (kind[1] = "config" /\ kind[2] \in OWNER_ONLY_CONFIGS) => is_group_owner(u)
    /\ status' = "pending"
    /\ prop' = [action_type |-> kind[1], key_target |-> kind[2],
                proposer_id |-> u]
    /\ hs' = [hs EXCEPT ![h] = [Idle EXCEPT !.pc = "cr_notify", !.uid = u,
                                            !.vote = "yes", !.auto = TRUE]]
    /\ UNCHANGED <<votes, roster, age, effects, sent, aside>>

\* line 258 raised: the confirmation was not delivered and the handler ends
\* before the announcement and the proposer's automatic ballot
CreateNotifyFails(h) ==
    /\ hs[h].pc = "cr_notify"
    /\ sent' = "created"
    /\ hs' = [hs EXCEPT ![h] = Idle]
    /\ UNCHANGED <<status, prop, votes, roster, age, effects, aside>>

\* line 258: the confirmation is delivered
CreateNotify(h) ==
    /\ hs[h].pc = "cr_notify"
    /\ sent' = "created"
    /\ hs' = [hs EXCEPT ![h].pc = "cr_roster"]
    /\ UNCHANGED <<status, prop, votes, roster, age, effects, aside>>

\* line 260 raised: get_administrators failed and the handler ends before the
\* announcement and the proposer's automatic ballot
CreateRosterFails(h) ==
    /\ hs[h].pc = "cr_roster"
    /\ hs' = [hs EXCEPT ![h] = Idle]
    /\ UNCHANGED <<status, prop, votes, roster, age, effects, sent, aside>>

\* lines 261-281: the announcement DMs are out, delivered or not (each send is
\* in a try whose except passes); cast_vote(auto=True) opens its connection
\* and fetches the row WHERE status='pending'.
CreateCastsVote(h) ==
    /\ hs[h].pc = "cr_roster"
    /\ \/ hs' = [hs EXCEPT ![h] = Idle]                 \* no connection
       \/ /\ status # "pending"
          /\ hs' = [hs EXCEPT ![h] = Idle]
       \/ /\ status = "pending"
          /\ hs' = [hs EXCEPT ![h].pc = "cv_write"]
    /\ UNCHANGED <<status, prop, votes, roster, age, effects, sent, aside>>

(***************************************************************************)
(* cast_vote.                                                              *)
(***************************************************************************)
\* vote_command, with the row fetched whatever its status
vote_command_any_status(h, u, v) ==
    /\ hs[h] = Idle
    /\ status # "absent"
    /\ hs' = [hs EXCEPT ![h] = [Idle EXCEPT !.pc = "cv_write", !.uid = u, !.vote = v]]
    /\ UNCHANGED <<status, prop, votes, roster, age, effects, sent, aside>>

\* vote_command: the connection is open and the row was fetched as pending
vote_command(h, u, v) ==
    /\ hs[h] = Idle
    /\ status = "pending"
    /\ hs' = [hs EXCEPT ![h] = [Idle EXCEPT !.pc = "cv_write", !.uid = u, !.vote = v]]
    /\ UNCHANGED <<status, prop, votes, roster, age, effects, sent, aside>>

\* the handler's next position after a reply_text or send_message that may
\* raise: vote_command catches what cast_vote raises, the automatic cast of
\* create_proposal has no except clause around it
AfterSend(h) ==
    IF hs[h].auto THEN {Idle} ELSE {Idle, [hs[h] EXCEPT !.pc = "vc_except"]}

\* Upsert, with ON CONFLICT DO NOTHING: the voter's first ballot stays
Upsert_do_nothing(vts, user_id, vote) ==
    IF vts[user_id] = "none" THEN [vts EXCEPT ![user_id] = vote] ELSE vts

\* lines 290-291: INSERT INTO votes ... ON CONFLICT (proposal_id, user_id) DO
\* UPDATE SET vote=$3, on the table keyed by its PRIMARY KEY
Upsert(vts, user_id, vote) == [vts EXCEPT ![user_id] = vote]

\* CastVoteWrite, with a proposal of exactly 30 days treated as expired
CastVoteWrite_from_30_days(h) ==
    /\ hs[h].pc = "cv_write"
    /\ IF age >= ExpiryHours
       THEN /\ status' = "expired"
            /\ sent' = IF hs[h].auto THEN sent ELSE "expired"
            /\ \E nxt \in AfterSend(h) : hs' = [hs EXCEPT ![h] = nxt]
            /\ UNCHANGED votes
       ELSE /\ votes' = Upsert(votes, hs[h].uid, hs[h].vote)
            /\ sent' = IF hs[h].auto THEN sent ELSE "saved"
            /\ hs' = [hs EXCEPT ![h].pc = "cv_roster"]
            /\ UNCHANGED status
    /\ UNCHANGED <<prop, roster, age, effects, aside>>

\* lines 283-293: the age check, then UPDATE ... 'expired' and its reply, or
\* the upsert and its acknowledgment
\* CastVoteWrite, as if only a member of the roster could store a ballot
CastVoteWrite_members_only(h) ==
    /\ hs[h].pc = "cv_write"
    /\ IF age > ExpiryHours
       THEN /\ status' = "expired"
            /\ sent' = IF hs[h].auto THEN sent ELSE "expired"
            /\ \E nxt \in AfterSend(h) : hs' = [hs EXCEPT ![h] = nxt]
            /\ UNCHANGED votes
       ELSE IF hs[h].uid \notin roster
       THEN /\ hs' = [hs EXCEPT ![h] = Idle]
            /\ UNCHANGED <<status, votes, sent>>
       ELSE /\ votes' = Upsert(votes, hs[h].uid, hs[h].vote)
            /\ sent' = IF hs[h].auto THEN sent ELSE "saved"
            /\ hs' = [hs EXCEPT ![h].pc = "cv_roster"]
            /\ UNCHANGED status
    /\ UNCHANGED <<prop, roster, age, effects, aside>>

CastVoteWrite(h) ==
    /\ hs[h].pc = "cv_write"
    /\ IF age > ExpiryHours
       THEN /\ status' = "expired"
            /\ sent' = IF hs[h].auto THEN sent ELSE "expired"
            /\ \E nxt \in AfterSend(h) : hs' = [hs EXCEPT ![h] = nxt]
            /\ UNCHANGED votes
       ELSE /\ votes' = Upsert(votes, hs[h].uid, hs[h].vote)
            /\ sent' = IF hs[h].auto THEN sent ELSE "saved"
            /\ hs' = [hs EXCEPT ![h].pc = "cv_roster"]
            /\ UNCHANGED status
    /\ UNCHANGED <<prop, roster, age, effects, aside>>

\* CastVoteRosterFails, with a failed fetch taken as an empty administrator list
CastVoteRosterFails_as_empty(h) ==
    /\ hs[h].pc = "cv_roster"
    /\ hs' = [hs EXCEPT ![h].pc = "cv_count", ![h].current_admins = {}]
    /\ UNCHANGED <<status, prop, votes, roster, age, effects, sent, aside>>

\* lines 293-301, failing: the acknowledgment raised (not auto), or get_chat /
\* get_administrators raised and the except clause returns
CastVoteRosterFails(h) ==
    /\ hs[h].pc = "cv_roster"
    /\ \E nxt \in AfterSend(h) : hs' = [hs EXCEPT ![h] = nxt]
    /\ UNCHANGED <<status, prop, votes, roster, age, effects, sent, aside>>

\* VoteCommandExcept, as if the failed broadcast undid the status it follows
VoteCommandExcept_rolls_back(h) ==
    /\ hs[h].pc = "vc_except"
    /\ status' = IF sent \in {"passed", "rejected"} THEN "pending" ELSE status
    /\ sent' = "error"
    /\ hs' = [hs EXCEPT ![h] = Idle]
    /\ UNCHANGED <<prop, votes, roster, age, effects, aside>>

\* lines 455-457: vote_command's except clause replies with the error
VoteCommandExcept(h) ==
    /\ hs[h].pc = "vc_except"
    /\ sent' = "error"
    /\ hs' = [hs EXCEPT ![h] = Idle]
    /\ UNCHANGED <<status, prop, votes, roster, age, effects, aside>>

\* line 298: current_admins = await chat.get_administrators()
CastVoteRoster(h) ==
    /\ hs[h].pc = "cv_roster"
    /\ hs' = [hs EXCEPT ![h].pc = "cv_count", ![h].current_admins = roster]
    /\ UNCHANGED <<status, prop, votes, roster, age, effects, sent, aside>>

\* CastVoteCount, as if a list without a voter kept the vote open
CastVoteCount_needs_a_voter(h) ==
    /\ hs[h].pc = "cv_count"
    /\ IF \/ missing(votes, hs[h].current_admins) > 0
          \/ current_admin_ids(hs[h].current_admins) = {}
       THEN hs' = [hs EXCEPT ![h] = Idle]
       ELSE hs' = [hs EXCEPT ![h].pc = "cv_score"]
    /\ UNCHANGED <<status, prop, votes, roster, age, effects, sent, aside>>

\* lines 303-312: the attendance gate
CastVoteCount(h) ==
    /\ hs[h].pc = "cv_count"
    /\ IF missing(votes, hs[h].current_admins) > 0
       THEN hs' = [hs EXCEPT ![h] = Idle]
       ELSE hs' = [hs EXCEPT ![h].pc = "cv_score"]
    /\ UNCHANGED <<status, prop, votes, roster, age, effects, sent, aside>>

\* lines 314-346: the weights, the score over all_votes and the threshold; at
\* 50.0 or more execute_proposal opens its own connection
CastVoteScore(h) ==
    /\ hs[h].pc = "cv_score"
    /\ \E rows \in all_votes(votes) :
          IF FGeq(score_yes(rows, hs[h].current_admins, prop.action_type), FInt(Threshold))
          THEN \/ hs' = [hs EXCEPT ![h].pc = "ex_effect"]
               \/ hs' = [hs EXCEPT ![h] = Idle]          \* no connection
          ELSE hs' = [hs EXCEPT ![h].pc = "cv_reject"]
    /\ UNCHANGED <<status, prop, votes, roster, age, effects, sent, aside>>

\* lines 348-349: UPDATE proposals SET status='rejected' WHERE id=$1, then the
\* broadcast to the group
CastVoteReject(h) ==
    /\ hs[h].pc = "cv_reject"
    /\ status' = "rejected"
    /\ sent' = "rejected"
    /\ \E nxt \in AfterSend(h) : hs' = [hs EXCEPT ![h] = nxt]
    /\ UNCHANGED <<prop, votes, roster, age, effects, aside>>

(***************************************************************************)
(* execute_proposal.                                                       *)
(***************************************************************************)
\* the action_types whose effect goes through a helper that opens its own
\* connection and returns without writing when it gets none
SilentEffects == {"config", "suggestion_status", "report_status"}

\* lines 360-374: the effect of the action_type on the store
ExecuteEffect(h) ==
    /\ hs[h].pc = "ex_effect"
    /\ \/ effects' = effects + 1
       \/ prop.action_type \in SilentEffects /\ UNCHANGED effects
    /\ hs' = [hs EXCEPT ![h].pc = "ex_status"]
    /\ UNCHANGED <<status, prop, votes, roster, age, sent, aside>>

\* lines 376-377: UPDATE proposals SET status='passed' WHERE id=$1, then the
\* broadcast to the group
ExecuteStatus(h) ==
    /\ hs[h].pc = "ex_status"
    /\ status' = "passed"
    /\ sent' = "passed"
    /\ \E nxt \in AfterSend(h) : hs' = [hs EXCEPT ![h] = nxt]
    /\ UNCHANGED <<prop, votes, roster, age, effects, aside>>

(***************************************************************************)
(* cancel_proposal.                                                        *)
(***************************************************************************)
\* cancel_proposal, open to any administrator
cancel_proposal_any_admin(h, u) ==
    /\ hs[h] = Idle
    /\ is_admin(u)
    /\ status = "pending"
    /\ hs' = [hs EXCEPT ![h] = [Idle EXCEPT !.pc = "cn_write", !.uid = u]]
    /\ UNCHANGED <<status, prop, votes, roster, age, effects, sent, aside>>

\* lines 429-443: is_admin, then the row fetched as pending, of this proposer
cancel_proposal(h, u) ==
    /\ hs[h] = Idle
    /\ is_admin(u)
    /\ status = "pending"
    /\ prop.proposer_id = u
    /\ hs' = [hs EXCEPT ![h] = [Idle EXCEPT !.pc = "cn_write", !.uid = u]]
    /\ UNCHANGED <<status, prop, votes, roster, age, effects, sent, aside>>

\* lines 444-447: UPDATE proposals SET status='cancelled' WHERE id=$1 and the
\* reply, or the reply of the except clause when that one raised
\* CancelWrite, as if cancel_proposal expired a proposal older than 30 days
CancelWrite_expires_old(h) ==
    /\ hs[h].pc = "cn_write"
    /\ status' = IF age > ExpiryHours THEN "expired" ELSE "cancelled"
    /\ sent' \in {"cancelled", "error"}
    /\ hs' = [hs EXCEPT ![h] = Idle]
    /\ UNCHANGED <<prop, votes, roster, age, effects, aside>>

CancelWrite(h) ==
    /\ hs[h].pc = "cn_write"
    /\ status' = "cancelled"
    /\ sent' \in {"cancelled", "error"}
    /\ hs' = [hs EXCEPT ![h] = Idle]
    /\ UNCHANGED <<prop, votes, roster, age, effects, aside>>

Step(h) ==
    \/ \E u \in People, kind \in ProposalKinds : create_proposal(h, u, kind)
    \/ CreateNotifyFails(h)
    \/ CreateNotify(h)
    \/ CreateRosterFails(h)
    \/ CreateCastsVote(h)
    \/ \E u \in People, v \in Choices : vote_command(h, u, v)
    \/ CastVoteWrite(h)
    \/ CastVoteRosterFails(h)
    \/ VoteCommandExcept(h)
    \/ CastVoteRoster(h)
    \/ CastVoteCount(h)
    \/ CastVoteScore(h)
    \/ CastVoteReject(h)
    \/ ExecuteEffect(h)
    \/ ExecuteStatus(h)
    \/ \E u \in People : cancel_proposal(h, u)
    \/ CancelWrite(h)

\* Handlers in flight together, interleaving at their awaits, on a group whose
\* administrator list does not change meanwhile.
Next ==
    \/ Tick
    \/ \E h \in Handlers : Step(h)

Spec == Init /\ [][Next]_vars

\* One handler at a time (the dispatcher awaits each update's handler before it
\* takes the next), while the platform's administrator list changes under it.
LifeNext ==
    \/ Tick
    \/ \E u \in People \cup {BotUser} : RosterJoin(u)
    \/ \E u \in People \cup {BotUser} : RosterLeave(u)
    \/ Step(1)

SpecLife == Init /\ [][LifeNext]_vars

(***************************************************************************)
(* governance.py: one governance_decisions row and the sweep that closes   *)
(* it.  The module has its own tables; it never reads or writes proposals. *)
(***************************************************************************)
\* create_decision: INSERT ... 'active', expires_at = now + expires_in_hours
create_decision ==
    /\ decision.status = "absent"
    /\ decision' = [decision EXCEPT !.status = "active", !.due = FALSE]
    /\ UNCHANGED <<status, prop, votes, roster, age, effects, hs, sent,
                   last_pinged_at, reminded, twin>>

\* time passes expires_at: from now on expires_at < utcnow()
DecisionDue ==
    /\ decision.status # "absent"
    /\ ~decision.due
    /\ decision' = [decision EXCEPT !.due = TRUE]
    /\ UNCHANGED <<status, prop, votes, roster, age, effects, hs, sent,
                   last_pinged_at, reminded, twin>>

\* Closes, with the status left out of the WHERE clause
Closes_any_status(row) == row.status # "absent" /\ row.due

\* lines 86-87: WHERE status = 'active' AND expires_at < $1, of one row
Closes(row) == row.status = "active" /\ row.due

\* expire_governance_decisions: UPDATE governance_decisions SET status =
\* 'closed' WHERE status = 'active' AND expires_at < now
expire_governance_decisions ==
    /\ decision' = IF Closes(decision)
                   THEN [decision EXCEPT !.status = "closed"]
                   ELSE decision
    /\ UNCHANGED <<status, prop, votes, roster, age, effects, hs, sent,
                   last_pinged_at, reminded, twin>>

\* The scoring step by its enabling condition and the positions it leads to:
\* among the steps of the handlers, one of this shape is a CastVoteScore step.
ScoreMoves(h) ==
    /\ hs[h].pc = "cv_score"
    /\ \/ hs' = [hs EXCEPT ![h].pc = "ex_effect"]
       \/ hs' = [hs EXCEPT ![h].pc = "cv_reject"]
       \/ hs' = [hs EXCEPT ![h] = Idle]
    /\ UNCHANGED <<status, prop, votes, roster, age, effects, sent, aside>>

\* a handler that is in flight takes its next step
Finish(h) ==
    \/ CreateNotifyFails(h) \/ CreateNotify(h)
    \/ CreateRosterFails(h) \/ CreateCastsVote(h)
    \/ CastVoteWrite(h) \/ CastVoteRosterFails(h) \/ VoteCommandExcept(h)
    \/ CastVoteRoster(h) \/ CastVoteCount(h) \/ ScoreMoves(h)
    \/ CastVoteReject(h) \/ ExecuteEffect(h) \/ ExecuteStatus(h)
    \/ CancelWrite(h)

\* The bot's handlers, one at a time, beside governance.py's decisions and
\* its sweep.
SweepNext ==
    \/ Tick
    \/ Step(1)
    \/ create_decision
    \/ DecisionDue
    \/ expire_governance_decisions

\* Time passes, a handler in flight runs to its end, and the sweep of
\* governance_expiry_scheduler runs again and again; nobody is obliged to
\* send a command.
SpecSweep ==
    /\ Init
    /\ [][SweepNext]_vars
    /\ WF_vars(Tick)
    /\ WF_vars(DecisionDue)
    /\ WF_vars(Finish(1))
    /\ WF_vars(expire_governance_decisions)

(***************************************************************************)
(* governance.py: cast_vote beside the sweep.  cast_vote reads the         *)
(* decision, then writes the vote in a second statement; the sweep is a    *)
(* coroutine of its own (governance_expiry_scheduler) and the clock passes *)
(* expires_at when it does, so both may come between the two statements.   *)
(***************************************************************************)
\* lines 46-58: the row is read and the call returns False, or goes on to the
\* upsert
gov_cast_vote(v, val, w) ==
    /\ decision.cast.pc = "idle"
    /\ decision' =
          IF decision.status = "absent"
          THEN [decision EXCEPT !.reply = "not_found"]
          ELSE IF decision.status # "active"
          THEN [decision EXCEPT !.reply = "closed"]
          ELSE IF decision.due
          THEN [decision EXCEPT !.reply = "expired"]
          ELSE [decision EXCEPT !.cast = [pc |-> "write", voter |-> v,
                                          vote_value |-> val, weight |-> w]]
    /\ UNCHANGED <<status, prop, votes, roster, age, effects, hs, sent,
                   last_pinged_at, reminded, twin>>

\* lines 60-69: INSERT INTO governance_votes ... ON CONFLICT (decision_id,
\* voter_id) DO UPDATE SET vote_value = EXCLUDED.vote_value, weight =
\* EXCLUDED.weight
GovUpsert(d, v, val, w) ==
    [d EXCEPT !.vote_value[v] = val, !.weight[v] = w]

\* lines 71-72: the upsert is executed and the call returns True
GovCastWrite ==
    /\ decision.cast.pc = "write"
    /\ decision' = [GovUpsert(decision, decision.cast.voter,
                              decision.cast.vote_value, decision.cast.weight)
                      EXCEPT !.cast = NoCast, !.reply = "ok"]
    /\ UNCHANGED <<status, prop, votes, roster, age, effects, hs, sent,
                   last_pinged_at, reminded, twin>>

RECURSIVE SumWeights(_, _, _)
\* get_decision_results: SELECT vote_value, SUM(weight) ... GROUP BY vote_value
SumWeights(d, S, val) ==
    IF S = {} THEN 0
    ELSE LET v == CHOOSE x \in S : TRUE
         IN  (IF d.vote_value[v] = val THEN d.weight[v] ELSE 0)
               + SumWeights(d, S \ {v}, val)

get_decision_results(d) == [val \in Choices |-> SumWeights(d, GovVoters, val)]

GovNext ==
    \/ create_decision
    \/ DecisionDue
    \/ expire_governance_decisions
    \/ \E v \in GovVoters, val \in Choices, w \in GovWeights : gov_cast_vote(v, val, w)
    \/ GovCastWrite

SpecGov == Init /\ [][GovNext]_vars

(***************************************************************************)
(* governance.py: the sweep over a governance_decisions table of several   *)
(* rows.  In this specification the variable decision holds the table and  *)
(* the list of what each run of expire_governance_decisions returned.      *)
(***************************************************************************)
NumDecisions == 3
MaxRuns == 3
DecisionIds == 1..NumDecisions

NoRow == [status |-> "absent", due |-> FALSE]
NoTable == [rows |-> [id \in DecisionIds |-> NoRow], returned |-> <<>>]

\* create_decision: the INSERT takes the next id of the serial column
table_create_decision ==
    \E id \in DecisionIds :
        /\ decision.rows[id].status = "absent"
        /\ \A j \in 1..(id - 1) : decision.rows[j].status # "absent"
        /\ decision' = [decision EXCEPT !.rows[id].status = "active"]
        /\ UNCHANGED <<status, prop, votes, roster, age, effects, hs, sent,
                       last_pinged_at, reminded, twin>>

\* time passes the expires_at of one row (expires_in_hours is the caller's)
TableDue(id) ==
    /\ decision.rows[id].status # "absent"
    /\ ~decision.rows[id].due
    /\ decision' = [decision EXCEPT !.rows[id].due = TRUE]
    /\ UNCHANGED <<status, prop, votes, roster, age, effects, hs, sent,
                   last_pinged_at, reminded, twin>>

\* one run of expire_governance_decisions: the UPDATE ... RETURNING id is one
\* statement over the table; the run returns the ids of the rows it updated
table_expire_governance_decisions ==
    /\ Len(decision.returned) < MaxRuns
    /\ LET expired == {id \in DecisionIds : Closes(decision.rows[id])}
       IN  decision' =
             [rows |-> [id \in DecisionIds |->
                          IF id \in expired
                          THEN [decision.rows[id] EXCEPT !.status = "closed"]
                          ELSE decision.rows[id]],
              returned |-> Append(decision.returned, expired)]
    /\ UNCHANGED <<status, prop, votes, roster, age, effects, hs, sent,
                   last_pinged_at, reminded, twin>>

ExpireInit ==
    /\ status = "absent"
    /\ prop = NoProp
    /\ votes = NoVotes
    /\ roster = {}
    /\ age = 0
    /\ effects = 0
    /\ hs = [h \in Handlers |-> Idle]
    /\ sent = "none"
    /\ last_pinged_at = Never
    /\ reminded = {}
    /\ decision = NoTable
    /\ twin = NoTwin

ExpireNext ==
    \/ table_create_decision
    \/ \E id \in DecisionIds : TableDue(id)
    \/ table_expire_governance_decisions

SpecExpire == ExpireInit /\ [][ExpireNext]_vars

(***************************************************************************)
(* weights.py: get_admin_weights over the permissions rows of one group.   *)
(* A user has one row, hence one role, in a group: role = 'admin' rows are *)
(* distinct users and none of them is the owner.  In this specification    *)
(* the variable roster holds the rows (the owner's and the admins') and    *)
(* the variable sent holds what the last call returned, with the rows it   *)
(* read.  A weight w is held as the float of 32 * w: scaling by a power of *)
(* two is exact in binary64, so 1 is FInt(32), 0.5 is FInt(16), 1 / n is   *)
(* FDiv(32, n) and 0.5 / n is FDiv(16, n).                                 *)
(***************************************************************************)
WScale == 2^5

\* weights 1 and 0.5 (lines 51, 58, 59)
WOne == FInt(WScale)
WHalf == FInt(WScale \div 2)

\* get_admin_weights, the owner given 0.5 whether or not there are admins
get_admin_weights_owner_half(all_admins, owner) ==
    IF owner = None
    THEN [a \in all_admins |-> FDiv(WScale, Cardinality(all_admins))]
    ELSE [u \in all_admins \cup {owner} |->
            IF u = owner THEN WHalf
            ELSE FDiv(WScale \div 2, Cardinality(all_admins))]

\* lines 37-68: the dictionary user_id -> weight
get_admin_weights(all_admins, owner) ==
    IF owner = None
    THEN \* lines 39-47; with no admins the dictionary is returned empty
         [a \in all_admins |-> FDiv(WScale, Cardinality(all_admins))]
    ELSE IF all_admins = {}
    THEN \* lines 49-52
         [u \in {owner} |-> WOne]
    ELSE \* lines 58-68: admin_weight_total = 1 - 0.5, shared
         [u \in all_admins \cup {owner} |->
            IF u = owner THEN WHalf
            ELSE FDiv(WScale \div 2, Cardinality(all_admins))]

NoWeights == [called |-> FALSE, all_admins |-> {}, owner_id |-> None,
              weights |-> <<>>]

\* a role = 'admin' row is added: the admins of the group are 1..a
PermAdminAdded ==
    \E a \in Admins :
        /\ a \notin roster
        /\ \A b \in 1..(a - 1) : b \in roster
        /\ roster' = roster \cup {a}
        /\ UNCHANGED <<status, prop, votes, age, effects, hs, sent, aside>>

\* the latest role = 'admin' row is removed
PermAdminRemoved ==
    \E a \in Admins :
        /\ a \in roster
        /\ \A b \in Admins : b > a => b \notin roster
        /\ roster' = roster \ {a}
        /\ UNCHANGED <<status, prop, votes, age, effects, hs, sent, aside>>

\* the role = 'owner' row appears or goes ("Owner leaves")
PermOwnerChanges ==
    /\ roster' = IF OwnerUser \in roster THEN roster \ {OwnerUser}
                 ELSE roster \cup {OwnerUser}
    /\ UNCHANGED <<status, prop, votes, age, effects, hs, sent, aside>>

\* a call of get_admin_weights(group_id): lines 21-35 read the rows, lines
\* 37-68 build the dictionary
weights_call ==
    LET all_admins == roster \ {OwnerUser}
        owner      == IF OwnerUser \in roster THEN OwnerUser ELSE None
    IN  /\ sent' = [called |-> TRUE, all_admins |-> all_admins,
                    owner_id |-> owner,
                    weights |-> get_admin_weights(all_admins, owner)]
        /\ UNCHANGED <<status, prop, votes, roster, age, effects, hs, aside>>

WeightsInit ==
    /\ status = "absent"
    /\ prop = NoProp
    /\ votes = NoVotes
    /\ roster = {}
    /\ age = 0
    /\ effects = 0
    /\ hs = [h \in Handlers |-> Idle]
    /\ sent = NoWeights
    /\ last_pinged_at = Never
    /\ reminded = {}
    /\ decision = NoDecision
    /\ twin = NoTwin

WeightsNext ==
    \/ PermAdminAdded
    \/ PermAdminRemoved
    \/ PermOwnerChanges
    \/ weights_call

SpecWeights == WeightsInit /\ [][WeightsNext]_vars

(***************************************************************************)
(* The evaluation on its own: a cast has just written its ballot (line     *)
(* 290) on a pending proposal, and the rest of cast_vote runs with no      *)
(* other handler in flight.  The roster, the ballots and the action_type   *)
(* are drawn from every shape with at most MaxAdmins administrators:       *)
(* administrators 1..a are in the roster, 1..k of them voted yes and the   *)
(* next n voted no; the owner is absent, or present with no ballot, yes or *)
(* no; a bot is in the list or not.                                        *)
(***************************************************************************)
OwnerShapes == {"absent", "none", "yes", "no"}

EvalVotes(k, n, own) ==
    [u \in Users |->
        IF u \in 1..k THEN "yes"
        ELSE IF u \in (k + 1)..(k + n) THEN "no"
        ELSE IF u = OwnerUser /\ own \in Choices THEN own
        ELSE "none"]

EvalRoster(a, own, bot) ==
    (1..a) \cup (IF own = "absent" THEN {} ELSE {OwnerUser})
           \cup (IF bot THEN {BotUser} ELSE {})

\* the key_target that goes with an action_type
EvalTarget(t) ==
    IF t = "config" THEN "anti_link"
    ELSE IF IsBlacklist(t) THEN "word"
    ELSE "record"

EvalInit ==
    \E a \in 0..MaxAdmins, own \in OwnerShapes, bot \in BOOLEAN, t \in ActionTypes :
    \E k \in 0..a :
    \E n \in 0..(a - k) :
    LET caster == IF k + n > 0 THEN 1 ELSE OwnerUser
        vts    == EvalVotes(k, n, own)
    IN  /\ vts[caster] # "none"
        /\ status = "pending"
        /\ prop = [action_type |-> t, key_target |-> EvalTarget(t), proposer_id |-> caster]
        /\ votes = vts
        /\ roster = EvalRoster(a, own, bot)
        /\ age = 0
        /\ effects = 0
        /\ hs = [h \in Handlers |->
                   IF h = 1
                   THEN [Idle EXCEPT !.pc = "cv_roster", !.uid = caster, !.vote = vts[caster]]
                   ELSE Idle]
        /\ sent = "saved"
        /\ last_pinged_at = Never
        /\ reminded = {}
        /\ decision = NoDecision
        /\ twin = NoTwin

EvalNext ==
    \/ CastVoteRosterFails(1)
    \/ VoteCommandExcept(1)
    \/ CastVoteRoster(1)
    \/ CastVoteCount(1)
    \/ CastVoteScore(1)
    \/ CastVoteReject(1)
    \/ ExecuteEffect(1)
    \/ ExecuteStatus(1)

SpecEval == EvalInit /\ [][EvalNext]_vars

(***************************************************************************)
(* A cast that repeats the ballot its voter already has: the proposal is   *)
(* as an earlier cast of the same choice left it (pending, passed or       *)
(* rejected), the administrator list is the same, and the voter sends the  *)
(* same /vote again.  The voter is recorded as the proposer.               *)
(***************************************************************************)
\* lines 276-281: the row is not fetched (no such id, or status not pending)
vote_refused(h, u) ==
    /\ hs[h] = Idle
    /\ status # "pending"
    /\ sent' = "closed"
    /\ UNCHANGED <<status, prop, votes, roster, age, effects, hs, aside>>

\* the voter's /vote with the choice the voter's row already holds
cast_again(h) ==
    /\ votes[prop.proposer_id] \in Choices
    /\ vote_command(h, prop.proposer_id, votes[prop.proposer_id])

\* largest number of administrators beside the owner in these rosters
TwiceAdmins == 2

TwiceInit ==
    \E a \in 0..TwiceAdmins, own \in OwnerShapes, bot \in BOOLEAN, t \in ActionTypes :
    \E k \in 0..a :
    \E n \in 0..(a - k) :
    \E st \in {"pending", "passed", "rejected"} :
    LET caster == IF k + n > 0 THEN 1 ELSE OwnerUser
        vts    == EvalVotes(k, n, own)
    IN  /\ vts[caster] # "none"
        /\ status = st
        /\ prop = [action_type |-> t, key_target |-> EvalTarget(t), proposer_id |-> caster]
        /\ votes = vts
        /\ roster = EvalRoster(a, own, bot)
        /\ age \in {0, ExpiryHours}
        /\ effects \in (IF st = "passed" THEN (IF t \in SilentEffects THEN {0, 1} ELSE {1})
                        ELSE {0})
        /\ hs = [h \in Handlers |-> Idle]
        /\ sent = "saved"
        /\ last_pinged_at = Never
        /\ reminded = {}
        /\ decision = NoDecision
        /\ twin = NoTwin

TwiceNext ==
    \/ Tick
    \/ cast_again(1)
    \/ vote_refused(1, prop.proposer_id)
    \/ CastVoteWrite(1)
    \/ CastVoteRosterFails(1)
    \/ VoteCommandExcept(1)
    \/ CastVoteRoster(1)
    \/ CastVoteCount(1)
    \/ CastVoteScore(1)
    \/ CastVoteReject(1)
    \/ ExecuteEffect(1)
    \/ ExecuteStatus(1)

SpecTwice == TwiceInit /\ [][TwiceNext]_vars

(***************************************************************************)
(* One /vote from a voter who has no ballot yet, on a pending proposal, the *)
(* store and the platform being available or not.  The voter is recorded   *)
(* as the proposer.                                                        *)
(***************************************************************************)
\* lines 269-272: get_db_connection returned None
cast_unavailable(h, u) ==
    /\ hs[h] = Idle
    /\ sent' = "db_error"
    /\ UNCHANGED <<status, prop, votes, roster, age, effects, hs, aside>>

\* the voter's first /vote
cast_first(h) ==
    /\ votes[prop.proposer_id] = "none"
    /\ \E v \in Choices : vote_command(h, prop.proposer_id, v)

\* largest number of administrators beside the owner and the voter
CallAdmins == 2

\* the ballots of the others: administrators 2..a and the owner
CallVotes(a, yes, own) ==
    [u \in Users |->
        IF u \in 2..a THEN (IF u \in yes THEN "yes" ELSE "no")
        ELSE IF u = OwnerUser /\ own \in Choices THEN own
        ELSE "none"]

CallInit ==
    \E a \in 1..(CallAdmins + 1), own \in OwnerShapes, bot \in BOOLEAN, t \in ActionTypes :
    \E yes \in SUBSET (2..a) :
        /\ status = "pending"
        /\ prop = [action_type |-> t, key_target |-> EvalTarget(t), proposer_id |-> 1]
        /\ votes = CallVotes(a, yes, own)
        /\ roster = EvalRoster(a, own, bot)
        /\ age \in TimePoints
        /\ effects = 0
        /\ hs = [h \in Handlers |-> Idle]
        /\ sent = "created"
        /\ last_pinged_at = Never
        /\ reminded = {}
        /\ decision = NoDecision
        /\ twin = NoTwin

CallNext ==
    \/ cast_unavailable(1, prop.proposer_id)
    \/ cast_first(1)
    \/ CastVoteWrite(1)
    \/ CastVoteRosterFails(1)
    \/ VoteCommandExcept(1)
    \/ CastVoteRoster(1)
    \/ CastVoteCount(1)
    \/ CastVoteScore(1)
    \/ CastVoteReject(1)
    \/ ExecuteEffect(1)
    \/ ExecuteStatus(1)

SpecCall == CallInit /\ [][CallNext]_vars

(***************************************************************************)
(* ping_voters.                                                            *)
(***************************************************************************)
\* timedelta(hours=24)
CooldownHours == 24

\* last_ping and datetime.now() - last_ping < timedelta(hours=24)
InCooldown == last_pinged_at # Never /\ age - last_pinged_at < CooldownHours

\* ping_voters, without the cooldown check
ping_voters_no_cooldown(h, u) ==
    /\ hs[h] = Idle
    /\ status = "pending"
    /\ prop.proposer_id = u
    /\ hs' = [hs EXCEPT ![h] = [Idle EXCEPT !.pc = "pg_chat", !.uid = u]]
    /\ UNCHANGED <<status, prop, votes, roster, age, effects, sent, aside>>

\* ping_voters, with the reminders open to any requester
ping_voters_any_requester(h, u) ==
    /\ hs[h] = Idle
    /\ status = "pending"
    /\ ~InCooldown
    /\ hs' = [hs EXCEPT ![h] = [Idle EXCEPT !.pc = "pg_chat", !.uid = u]]
    /\ UNCHANGED <<status, prop, votes, roster, age, effects, sent, aside>>

\* lines 386-401, passing: the row is fetched as pending, the requester is its
\* proposer and the last ping is 24 hours old or more
ping_voters(h, u) ==
    /\ hs[h] = Idle
    /\ status = "pending"
    /\ prop.proposer_id = u
    /\ ~InCooldown
    /\ hs' = [hs EXCEPT ![h] = [Idle EXCEPT !.pc = "pg_chat", !.uid = u]]
    /\ UNCHANGED <<status, prop, votes, roster, age, effects, sent, aside>>

\* lines 386-401, refusing: no connection, no pending row, a requester who is
\* not the proposer, or a ping less than 24 hours after the last
ping_refused(h, u) ==
    /\ hs[h] = Idle
    /\ \/ sent' = "db_error"
       \/ status # "pending" /\ sent' = "invalid"
       \/ status = "pending" /\ prop.proposer_id # u /\ sent' = "forbidden"
       \/ status = "pending" /\ prop.proposer_id = u /\ InCooldown
            /\ sent' = "cooldown"
    /\ UNCHANGED <<status, prop, votes, roster, age, effects, hs, aside>>

\* lines 403-408: get_chat raised and the handler says so, or
\* get_administrators raised
PingChatFails(h) ==
    /\ hs[h].pc = "pg_chat"
    /\ sent' \in {"no_group", sent}
    /\ hs' = [hs EXCEPT ![h] = Idle]
    /\ UNCHANGED <<status, prop, votes, roster, age, effects, aside>>

\* line 408: current_admins = await chat.get_administrators()
PingRoster(h) ==
    /\ hs[h].pc = "pg_chat"
    /\ hs' = [hs EXCEPT ![h].pc = "pg_send", ![h].current_admins = roster]
    /\ UNCHANGED <<status, prop, votes, roster, age, effects, sent, aside>>

\* line 412: the non-bot members of the fetched list without a ballot
missing_admins(vts, current_admins) ==
    {a \in current_admins : a \notin voted_ids(vts) /\ ~is_bot(a)}

\* lines 410-422: nobody is missing and the handler says so, or a reminder goes
\* to each missing member, each send failing or not
PingSend(h) ==
    /\ hs[h].pc = "pg_send"
    /\ LET ma == missing_admins(votes, hs[h].current_admins)
       IN  IF ma = {}
           THEN /\ sent' = "everyone"
                /\ hs' = [hs EXCEPT ![h] = Idle]
                /\ UNCHANGED reminded
           ELSE /\ \E got \in SUBSET ma : reminded' = reminded \cup got
                /\ hs' = [hs EXCEPT ![h].pc = "pg_stamp"]
                /\ UNCHANGED sent
    /\ UNCHANGED <<status, prop, votes, roster, age, effects, last_pinged_at,
                   decision, twin>>

\* lines 424-426: UPDATE proposals SET last_pinged_at=CURRENT_TIMESTAMP and the
\* count of reminders sent
PingStamp(h) ==
    /\ hs[h].pc = "pg_stamp"
    /\ last_pinged_at' = age
    /\ sent' = "reminders"
    /\ hs' = [hs EXCEPT ![h] = Idle]
    /\ UNCHANGED <<status, prop, votes, roster, age, effects, reminded, decision,
                   twin>>

PingStep(h) ==
    \/ \E u \in People : ping_voters(h, u)
    \/ \E u \in People : ping_refused(h, u)
    \/ PingChatFails(h)
    \/ PingRoster(h)
    \/ PingSend(h)
    \/ PingStamp(h)

\* The /ping commands on a proposal as casts left it, the platform's
\* administrator list changing meanwhile.
PingInit ==
    \E a \in 0..NumAdmins, own \in OwnerShapes, bot \in BOOLEAN :
    \E k \in 0..a, p \in People :
    \E st \in {"pending", "rejected", "cancelled"} :
        /\ status = st
        /\ prop = [action_type |-> "config", key_target |-> "anti_link", proposer_id |-> p]
        /\ votes = EvalVotes(k, 0, own)
        /\ roster = EvalRoster(a, own, bot)
        /\ age = 0
        /\ effects = 0
        /\ hs = [h \in Handlers |-> Idle]
        /\ sent = "saved"
        /\ last_pinged_at = Never
        /\ reminded = {}
        /\ decision = NoDecision
        /\ twin = NoTwin

PingNext ==
    \/ Tick
    \/ \E u \in People : RosterJoin(u)
    \/ \E u \in People : RosterLeave(u)
    \/ PingStep(1)

SpecPing == PingInit /\ [][PingNext]_vars

(***************************************************************************)
(* /cancel and /vote on a proposal in any status (no such row, pending,    *)
(* closed), one handler at a time.                                         *)
(***************************************************************************)
\* lines 429-443 and 447, refusing: no connection, no pending row of that id,
\* a requester who is not the proposer, or an exception before the UPDATE.  A
\* requester who is not an administrator gets no reply at all (line 429):
\* that call changes nothing, not even sent.
cancel_refused(h, u) ==
    /\ hs[h] = Idle
    /\ is_admin(u)
    /\ \/ sent' = "db_error"
       \/ sent' = "error"
       \/ status # "pending" /\ sent' = "invalid_id"
       \/ status = "pending" /\ prop.proposer_id # u /\ sent' = "not_yours"
    /\ UNCHANGED <<status, prop, votes, roster, age, effects, hs, aside>>

CancelInit ==
    \E a \in 0..NumAdmins, own \in OwnerShapes, bot \in BOOLEAN :
    \E k \in 0..a, p \in People :
    \E st \in {"absent", "pending"} \cup Terminal :
        /\ status = st
        /\ prop = IF st = "absent" THEN NoProp
                  ELSE [action_type |-> "config", key_target |-> "anti_link",
                        proposer_id |-> p]
        /\ votes = IF st = "absent" THEN NoVotes ELSE EvalVotes(k, 0, own)
        /\ roster = EvalRoster(a, own, bot)
        /\ age = 0
        /\ effects \in (IF st = "passed" THEN {0, 1} ELSE {0})
        /\ hs = [h \in Handlers |-> Idle]
        /\ sent = "none"
        /\ last_pinged_at = Never
        /\ reminded = {}
        /\ decision = NoDecision
        /\ twin = NoTwin

CancelNext ==
    \/ Tick
    \/ \E u \in People : RosterJoin(u)
    \/ \E u \in People : RosterLeave(u)
    \/ \E u \in People : cancel_proposal(1, u)
    \/ \E u \in People : cancel_refused(1, u)
    \/ CancelWrite(1)
    \/ \E u \in People, v \in Choices : vote_command(1, u, v)
    \/ \E u \in People : vote_refused(1, u)
    \/ CastVoteWrite(1)
    \/ CastVoteRosterFails(1)
    \/ VoteCommandExcept(1)
    \/ CastVoteRoster(1)
    \/ CastVoteCount(1)
    \/ CastVoteScore(1)
    \/ CastVoteReject(1)
    \/ ExecuteEffect(1)
    \/ ExecuteStatus(1)

SpecCancel == CancelInit /\ [][CancelNext]_vars

(***************************************************************************)
(* Two runs of the same /vote commands that differ only in the choices.    *)
(* The first run takes a script of commands as it goes: who votes, the     *)
(* choice in the first run, the choice in the second run, and which call   *)
(* of the command fails, if any.  Then the proposal is put back as it was  *)
(* and the second run takes the same commands, with the same failures, and *)
(* its own choices.  After each command the run's record gets the last     *)
(* message of the command and the status it left: with the status before   *)
(* the command these determine every message the command sent.  The        *)
(* handlers run one at a time; the roster and the clock are the same in    *)
(* both runs.                                                              *)
(***************************************************************************)
\* number of /vote commands in a script
MaxCasts == 2

\* the call that fails during a command: none, the acknowledgment (line 293),
\* the roster fetch (line 298), execute_proposal's connection (line 353), the
\* connection of the effect's helper (update_setting_db), the broadcast
\* (lines 349, 377)
SecretEnvs == {"ok", "ack_fails", "roster_fails", "no_conn", "effect_silent",
               "send_fails"}

\* the first run's next command
SecretPick(u, va, vb, e) ==
    /\ twin.phase = "first"
    /\ hs[1] = Idle
    /\ Len(twin.script) < MaxCasts
    /\ twin.script # <<>> => sent # "none"
    /\ twin' = [twin EXCEPT
                  !.script = Append(@, [uid |-> u, a |-> va, b |-> vb, env |-> e]),
                  !.cur = [uid |-> u, vote |-> va, env |-> e],
                  !.first = IF twin.script = <<>> THEN @
                            ELSE Append(@, <<sent, status>>)]
    /\ sent' = "none"
    /\ UNCHANGED <<status, prop, votes, roster, age, effects, hs,
                   last_pinged_at, reminded, decision>>

\* the first run is over: the proposal is put back as it was for the second
SecretReplay ==
    /\ twin.phase = "first"
    /\ hs[1] = Idle
    /\ twin.script # <<>>
    /\ sent # "none"
    /\ twin' = [twin EXCEPT !.phase = "second",
                            !.cur = NoTwin.cur,
                            !.first = Append(@, <<sent, status>>),
                            !.out = status]
    /\ status' = "pending"
    /\ votes' = NoVotes
    /\ effects' = 0
    /\ sent' = "none"
    /\ UNCHANGED <<prop, roster, age, hs, last_pinged_at, reminded, decision>>

\* the second run's next command: the same voter and failure, its own choice
SecretPickAgain ==
    /\ twin.phase = "second"
    /\ hs[1] = Idle
    /\ twin.at < Len(twin.script)
    /\ twin.at > 0 => sent # "none"
    /\ LET c == twin.script[twin.at + 1]
       IN  twin' = [twin EXCEPT
                      !.at = @ + 1,
                      !.cur = [uid |-> c.uid, vote |-> c.b, env |-> c.env],
                      !.second = IF twin.at = 0 THEN @
                                 ELSE Append(@, <<sent, status>>)]
    /\ sent' = "none"
    /\ UNCHANGED <<status, prop, votes, roster, age, effects, hs,
                   last_pinged_at, reminded, decision>>

\* the second run is over
SecretDone ==
    /\ twin.phase = "second"
    /\ hs[1] = Idle
    /\ twin.at = Len(twin.script)
    /\ sent # "none"
    /\ twin' = [twin EXCEPT !.phase = "done",
                            !.second = Append(@, <<sent, status>>)]
    /\ UNCHANGED <<status, prop, votes, roster, age, effects, hs, sent,
                   last_pinged_at, reminded, decision>>

\* the command that was picked reaches vote_command
SecretStart ==
    /\ twin.phase \in {"first", "second"}
    /\ twin.cur.uid # None
    /\ sent = "none"
    /\ \/ vote_command(1, twin.cur.uid, twin.cur.vote)
       \/ vote_refused(1, twin.cur.uid)

\* the handler's steps, each call failing when the script says so
SecretRosterFails ==
    /\ CastVoteRosterFails(1)
    /\ \/ twin.cur.env = "ack_fails" /\ hs'[1].pc = "vc_except"
       \/ twin.cur.env = "roster_fails" /\ hs'[1] = Idle

SecretRoster ==
    /\ twin.cur.env \notin {"ack_fails", "roster_fails"}
    /\ CastVoteRoster(1)

\* execute_proposal's connection is asked for only when the score passes
SecretScore ==
    /\ CastVoteScore(1)
    /\ hs'[1] = Idle => twin.cur.env = "no_conn"
    /\ hs'[1].pc = "ex_effect" => twin.cur.env # "no_conn"

SecretEffect ==
    /\ ExecuteEffect(1)
    /\ effects' = effects <=> twin.cur.env = "effect_silent"

SecretReject ==
    /\ CastVoteReject(1)
    /\ hs'[1].pc = "vc_except" <=> twin.cur.env = "send_fails"

SecretStatus ==
    /\ ExecuteStatus(1)
    /\ hs'[1].pc = "vc_except" <=> twin.cur.env = "send_fails"

SecretInit ==
    \E a \in 0..NumAdmins, own \in {"absent", "none"} :
        /\ a > 0 \/ own # "absent"
        /\ status = "pending"
        /\ prop = [action_type |-> "config", key_target |-> "anti_link",
                   proposer_id |-> IF a > 0 THEN 1 ELSE OwnerUser]
        /\ votes = NoVotes
        /\ roster = EvalRoster(a, own, FALSE)
        /\ age = 0
        /\ effects = 0
        /\ hs = [h \in Handlers |-> Idle]
        /\ sent = "none"
        /\ last_pinged_at = Never
        /\ reminded = {}
        /\ decision = NoDecision
        /\ twin = [NoTwin EXCEPT !.phase = "first"]

SecretNext ==
    \/ \E u \in People, va \in Choices, vb \in Choices, e \in SecretEnvs :
          SecretPick(u, va, vb, e)
    \/ SecretReplay
    \/ SecretPickAgain
    \/ SecretDone
    \/ SecretStart
    \/ CastVoteWrite(1)
    \/ SecretRosterFails
    \/ VoteCommandExcept(1)
    \/ SecretRoster
    \/ CastVoteCount(1)
    \/ SecretScore
    \/ SecretReject
    \/ SecretEffect
    \/ SecretStatus

SpecSecret == SecretInit /\ [][SecretNext]_vars

(***************************************************************************)
(* The proposal commands on their own: /config and /blacklist from the     *)
(* administrators, the owner and the bot's creator, up to the end of the   *)
(* proposer's automatic cast, one handler at a time.                       *)
(***************************************************************************)
\* lines 236-239: the key is owner-only and is_group_owner said no (the sender
\* is not the owner, or get_member raised): the reply and nothing else
create_denied(h, u, kind) ==
    /\ hs[h] = Idle
    /\ status = "absent"
    /\ is_admin(u)
    /\ kind[1] = "config" /\ kind[2] \in OWNER_ONLY_CONFIGS
    /\ u # BOT_CREATOR_ID
    /\ sent' = "denied"
    /\ UNCHANGED <<status, prop, votes, roster, age, effects, hs, aside>>

\* lines 241-242: get_db_connection returned None
create_unavailable(h, u, kind) ==
    /\ hs[h] = Idle
    /\ status = "absent"
    /\ is_admin(u)
    /\ (kind[1] = "config" /\ kind[2] \in OWNER_ONLY_CONFIGS) => is_group_owner(u)
    /\ sent' = "db_error"
    /\ UNCHANGED <<status, prop, votes, roster, age, effects, hs, aside>>

\* the senders of the proposal commands
Proposers == People \cup {CreatorUser}

ProposeInit ==
    /\ status = "absent"
    /\ prop = NoProp
    /\ votes = NoVotes
    /\ roster \in SUBSET (Proposers \cup {BotUser})
    /\ age = 0
    /\ effects = 0
    /\ hs = [h \in Handlers |-> Idle]
    /\ sent = "none"
    /\ last_pinged_at = Never
    /\ reminded = {}
    /\ decision = NoDecision
    /\ twin = NoTwin

ProposeNext ==
    \/ \E u \in Proposers \cup {BotUser} : RosterJoin(u)
    \/ \E u \in Proposers \cup {BotUser} : RosterLeave(u)
    \/ \E u \in Proposers, kind \in ProposalKinds : create_proposal(1, u, kind)
    \/ \E u \in Proposers, kind \in ProposalKinds : create_denied(1, u, kind)
    \/ \E u \in Proposers, kind \in ProposalKinds : create_unavailable(1, u, kind)
    \/ CreateNotifyFails(1)
    \/ CreateNotify(1)
    \/ CreateRosterFails(1)
    \/ CreateCastsVote(1)
    \/ CastVoteWrite(1)
    \/ CastVoteRosterFails(1)
    \/ CastVoteRoster(1)
    \/ CastVoteCount(1)
    \/ CastVoteScore(1)
    \/ CastVoteReject(1)
    \/ ExecuteEffect(1)
    \/ ExecuteStatus(1)

SpecPropose == ProposeInit /\ [][ProposeNext]_vars

(***************************************************************************)
(* /vote with whatever word the sender typed: vote_command passes          *)
(* args[1].lower() to cast_vote as it is.                                  *)
(***************************************************************************)
\* the second argument of /vote: yes, no, or any other word
Words == Choices \cup {"maybe"}

WordNext ==
    \/ Tick
    \/ \E u \in People : RosterJoin(u)
    \/ \E u \in People : RosterLeave(u)
    \/ \E u \in People, v \in Words : vote_command(1, u, v)
    \/ \E u \in People : vote_refused(1, u)
    \/ CastVoteWrite(1)
    \/ CastVoteRosterFails(1)
    \/ VoteCommandExcept(1)
    \/ CastVoteRoster(1)
    \/ CastVoteCount(1)
    \/ CastVoteScore(1)
    \/ CastVoteReject(1)
    \/ ExecuteEffect(1)
    \/ ExecuteStatus(1)

SpecWord == CancelInit /\ [][WordNext]_vars

(***************************************************************************)
(* The commands of an old proposal: /ping, /cancel and /vote on a proposal *)
(* while the clock passes its thirtieth day.                               *)
(***************************************************************************)
AgedNext ==
    \/ PingNext
    \/ \E u \in People : cancel_proposal(1, u)
    \/ \E u \in People : cancel_refused(1, u)
    \/ CancelWrite(1)
    \/ \E u \in People, v \in Choices : vote_command(1, u, v)
    \/ CastVoteWrite(1)
    \/ CastVoteRosterFails(1)
    \/ VoteCommandExcept(1)
    \/ CastVoteRoster(1)
    \/ CastVoteCount(1)
    \/ CastVoteScore(1)
    \/ CastVoteReject(1)
    \/ ExecuteEffect(1)
    \/ ExecuteStatus(1)

SpecAged == PingInit /\ [][AgedNext]_vars

(***************************************************************************)
(* Claims.                                                                 *)
(***************************************************************************)

\* C1: under every interleaving of cast_vote handlers on the proposal, its
\* execution effect is applied to the store at most once.
C1_EffectAtMostOnce == effects <= 1

\* C2: once the status is passed, rejected, expired or cancelled, no step of
\* any handler changes it again.
C2_TerminalIsFinal == [][(status \in Terminal) => (status' = status)]_vars

\* C3: no ballot row is inserted or overwritten while the status is terminal,
\* and no evaluation starts (fetches the roster to count ballots) while the
\* status is terminal.
C3_NoBallotAfterClose ==
    [][(status \in Terminal) =>
         /\ votes' = votes
         /\ \A h \in Handlers :
               ~(hs[h].pc = "cv_roster" /\ hs'[h].pc = "cv_count")]_vars

\* the handlers that are past the attendance gate of their evaluation
PastGate == {"cv_score", "cv_reject", "ex_effect", "ex_status"}

\* C4 (1): a handler is past the attendance gate, and so may set passed or
\* rejected, only if every non-bot member of the roster it fetched has a ballot.
C4_GateInv ==
    \A h \in Handlers :
        hs[h].pc \in PastGate =>
            \A u \in hs[h].current_admins : ~is_bot(u) => votes[u] # "none"

\* C4 (2): a handler that counts ballots while a non-bot member of the roster
\* it fetched has none ends there and leaves the status as it is.
C4_GateStep ==
    [][\A h \in Handlers :
          (/\ hs[h].pc = "cv_count"
           /\ hs'[h] # hs[h]
           /\ \E u \in hs[h].current_admins : ~is_bot(u) /\ votes[u] = "none")
          => (hs'[h] = Idle /\ status' = status)]_vars

\* C4: the attendance gate.
C4_AttendanceGate == []C4_GateInv /\ C4_GateStep

\* C4, its case: the owner's yes already weighs 50, administrator 1 is in the
\* roster without a ballot, the cast has been evaluated and the proposal is
\* still pending.
C4_Witness ==
    /\ status = "pending"
    /\ prop.action_type = "config"
    /\ roster = {1, OwnerUser}
    /\ votes[OwnerUser] = "yes"
    /\ votes[1] = "none"
    /\ hs[1] = Idle

(***************************************************************************)
(* Claims about the weights and the threshold, on the evaluation's own     *)
(* specification.  O and A of a roster, as the claims count them.          *)
(***************************************************************************)
\* the non-bot administrators other than the owner
HumanAdmins(ca) == {u \in ca : u # OwnerUser /\ ~is_bot(u)}

HasOwner(ca) == OwnerUser \in ca

\* the weight the evaluation gives voter u: what u's yes ballot adds to score_yes
WeightOf(u, ca, t) == RowWeight(u, "yes", ca, t)

\* the roster handler 1 evaluates against, once it is past the attendance gate
Evaluating == hs[1].pc = "cv_score"

\* The weights of section 4.1 as exact fractions over the denominator
\* max(A, 1): the numerators of the owner's and of one administrator's weight.
ExactDen(ca) == IF HumanAdmins(ca) = {} THEN 1 ELSE Cardinality(HumanAdmins(ca))

ExactOwnerNum(ca, t) ==
    IF ~HasOwner(ca) \/ IsBlacklist(t) THEN 0
    ELSE IF HumanAdmins(ca) = {} THEN 100
    ELSE 50 * ExactDen(ca)

ExactAdminNum(ca, t) ==
    IF HumanAdmins(ca) = {} THEN 0
    ELSE IF IsBlacklist(t) \/ ~HasOwner(ca) THEN 100
    ELSE 50

\* the exact sum of the weights of the eligible voters whose ballot is yes is
\* at least 50
ExactPass(ca, vts, t) ==
    (IF HasOwner(ca) /\ vts[OwnerUser] = "yes" THEN ExactOwnerNum(ca, t) ELSE 0)
      + ExactAdminNum(ca, t) * Cardinality({u \in HumanAdmins(ca) : vts[u] = "yes"})
    >= 50 * ExactDen(ca)

\* C5: an evaluation that decides sets passed if and only if the sum of the
\* weights of the eligible voters whose ballot is yes is at least 50 (exactly
\* 50 passes), and rejected otherwise.
C5_PassIffAtLeast50 ==
    (hs[1] = Idle /\ status \in {"passed", "rejected"}) =>
        (status = "passed" <=> ExactPass(roster, votes, prop.action_type))

\* C6: for a non-blacklist action_type the owner weighs 50 and each other
\* administrator 50/A when there is an owner and A > 0, the owner weighs 100
\* when A = 0, and each administrator weighs 100/A when there is no owner.
C6_Weights ==
    (Evaluating /\ ~IsBlacklist(prop.action_type)) =>
        LET ca == hs[1].current_admins
            t  == prop.action_type
            A  == Cardinality(HumanAdmins(ca))
        IN  /\ (HasOwner(ca) /\ A > 0) =>
                  /\ WeightOf(OwnerUser, ca, t) = FInt(50)
                  /\ \A u \in HumanAdmins(ca) : WeightOf(u, ca, t) = FDiv(50, A)
            /\ (HasOwner(ca) /\ A = 0) => WeightOf(OwnerUser, ca, t) = FInt(100)
            /\ (~HasOwner(ca) /\ A > 0) =>
                  \A u \in HumanAdmins(ca) : WeightOf(u, ca, t) = FDiv(100, A)

\* C6, its case: an owner and three administrators, all with a ballot, on a
\* suggestion_status proposal
C6_Witness ==
    /\ Evaluating
    /\ prop.action_type = "suggestion_status"
    /\ HasOwner(hs[1].current_admins)
    /\ Cardinality(HumanAdmins(hs[1].current_admins)) = 3

\* C7: for blacklist_add and blacklist_remove the owner's yes adds 0 to
\* score_yes and each other administrator's yes adds 100/A; with an owner and
\* two administrators each administrator weighs 50.
C7_BlacklistWeights ==
    (Evaluating /\ IsBlacklist(prop.action_type)) =>
        LET ca == hs[1].current_admins
            t  == prop.action_type
            A  == Cardinality(HumanAdmins(ca))
        IN  /\ HasOwner(ca) => WeightOf(OwnerUser, ca, t) = FZero
            /\ A > 0 => \A u \in HumanAdmins(ca) : WeightOf(u, ca, t) = FDiv(100, A)
            /\ (HasOwner(ca) /\ A = 2) =>
                  \A u \in HumanAdmins(ca) : WeightOf(u, ca, t) = FInt(50)

\* C7, its case: a blacklist_add proposal, an owner who voted yes and two
\* administrators
C7_Witness ==
    /\ Evaluating
    /\ prop.action_type = "blacklist_add"
    /\ HasOwner(hs[1].current_admins)
    /\ votes[OwnerUser] = "yes"
    /\ Cardinality(HumanAdmins(hs[1].current_admins)) = 2

\* the eligible voters of a roster: the owner and the non-bot administrators
Eligible(ca) == {u \in ca : ~is_bot(u)}

\* the sum of the weights of the eligible voters, as an exact number (the
\* limbs added without rounding)
WeightTotal(ca, t) ==
    LET ow == IF HasOwner(ca) THEN WeightOf(OwnerUser, ca, t) ELSE FZero
        aw == admin_weight(ca, t)
        A  == Cardinality(HumanAdmins(ca))
    IN  FNorm(ow[1] + A * aw[1], ow[2] + A * aw[2], ow[3] + A * aw[3])

WeightsInRange(ca, t) ==
    \A u \in Eligible(ca) :
        FGeq(WeightOf(u, ca, t), FZero) /\ FGeq(FInt(100), WeightOf(u, ca, t))

\* x shifted up by e units of 2^-53
FPlus(x, e) == FNorm(x[1], x[2], x[3] + e)

\* C8 as stated: with at least one eligible voter the weights sum to exactly
\* 100 and each lies in [0, 100], for every action_type.
C8_SumExactly100 ==
    (Evaluating /\ Eligible(hs[1].current_admins) # {}) =>
        /\ WeightTotal(hs[1].current_admins, prop.action_type) = FInt(100)
        /\ WeightsInRange(hs[1].current_admins, prop.action_type)

\* C8 as amended: each weight lies in [0, 100]; the weights sum to 0 for a
\* blacklist action_type with A = 0, and otherwise to 100 up to the rounding of
\* the quotient: the sum differs from 100 by at most A * 2^-47.
C8_SumNear100 ==
    (Evaluating /\ Eligible(hs[1].current_admins) # {}) =>
        LET ca  == hs[1].current_admins
            t   == prop.action_type
            tol == 64 * Cardinality(HumanAdmins(ca))
        IN  /\ WeightsInRange(ca, t)
            /\ IF IsBlacklist(t) /\ HumanAdmins(ca) = {}
               THEN WeightTotal(ca, t) = FZero
               ELSE /\ FGeq(FPlus(WeightTotal(ca, t), tol), FInt(100))
                    /\ FGeq(FPlus(FInt(100), tol), WeightTotal(ca, t))

\* C8, its case: a blacklist proposal evaluated against the owner alone, the
\* owner being an eligible voter whose weight is 0
C8_Witness ==
    /\ Evaluating
    /\ IsBlacklist(prop.action_type)
    /\ hs[1].current_admins = {OwnerUser}
    /\ votes[OwnerUser] = "yes"

\* C9 as stated: with an owner and no other non-bot administrator the owner's
\* weight is 100 for every action_type.
C9_OwnerAlone100 ==
    (Evaluating /\ HasOwner(hs[1].current_admins)
                /\ HumanAdmins(hs[1].current_admins) = {}) =>
        WeightOf(OwnerUser, hs[1].current_admins, prop.action_type) = FInt(100)

\* C9 as amended: with an owner and no other non-bot administrator the owner's
\* weight is 100 for every non-blacklist action_type, and 0 for blacklist_add
\* and blacklist_remove.
C9_OwnerAlone ==
    (Evaluating /\ HasOwner(hs[1].current_admins)
                /\ HumanAdmins(hs[1].current_admins) = {}) =>
        WeightOf(OwnerUser, hs[1].current_admins, prop.action_type)
            = (IF IsBlacklist(prop.action_type) THEN FZero ELSE FInt(100))

\* C9, its case: the owner and a bot are the only administrators, on a
\* blacklist_remove proposal on which the owner voted yes
C9_Witness ==
    /\ Evaluating
    /\ hs[1].current_admins = {OwnerUser, BotUser}
    /\ prop.action_type = "blacklist_remove"
    /\ votes[OwnerUser] = "yes"

\* C10: a blacklist proposal evaluated against a roster without a non-owner
\* administrator is neither passed nor rejected: it stays pending.
C10_BlacklistNoAdminPending ==
    (IsBlacklist(prop.action_type) /\ HumanAdmins(roster) = {}) => status = "pending"

(***************************************************************************)
(* Claims about single voters and the live roster.                         *)
(***************************************************************************)
\* a non-blacklist proposal, a roster with the owner and at least one other
\* administrator, every eligible voter has a ballot and exactly one of them
\* is yes
LoneYes ==
    /\ ~IsBlacklist(prop.action_type)
    /\ HasOwner(roster)
    /\ HumanAdmins(roster) # {}
    /\ \A u \in Eligible(roster) : votes[u] \in Choices
    /\ Cardinality({u \in Eligible(roster) : votes[u] = "yes"}) = 1

\* C11 as stated: when exactly one eligible voter votes yes and every other
\* eligible voter votes no, the proposal is not passed.
C11_NoLoneYesPasses == LoneYes => status # "passed"

\* C11 as amended: an evaluation of such ballots passes the proposal exactly
\* when the lone yes is the owner's (weight 50) or that of the only other
\* administrator (weight 50/1); the lone yes of one of two or more
\* administrators never passes it.
C11_LoneYesOutcome ==
    (LoneYes /\ hs[1] = Idle /\ status \in {"passed", "rejected"}) =>
        (status = "passed" <=>
            (votes[OwnerUser] = "yes" \/ Cardinality(HumanAdmins(roster)) = 1))

\* C11, its case: the lone yes of one of two administrators beside the owner,
\* evaluated and rejected
C11_Witness ==
    /\ LoneYes
    /\ Cardinality(HumanAdmins(roster)) = 2
    /\ votes[1] = "yes"
    /\ hs[1] = Idle
    /\ status = "rejected"

\* C12 (1): the roster an evaluation works with is the platform's list at the
\* moment the evaluation fetches it.
C12_Fetch ==
    [][\A h \in Handlers :
          (hs[h].pc = "cv_roster" /\ hs'[h].pc = "cv_count")
          => hs'[h].current_admins = roster]_vars

\* C12 (2): past the gate every non-bot member of the fetched roster has a
\* ballot, whenever that member joined; the evaluation goes on to execute only
\* if the yes ballots of members of the fetched roster, with the weights of
\* that roster's administrator count, reach 50, and to reject only if they do
\* not: a ballot whose voter is outside the fetched roster adds nothing.
C12_Counted ==
    \A h \in Handlers :
        LET ca == hs[h].current_admins
        IN  /\ hs[h].pc \in PastGate =>
                  \A u \in Eligible(ca) : votes[u] # "none"
            /\ hs[h].pc \in {"ex_effect", "ex_status"} =>
                  ExactPass(ca, votes, prop.action_type)
            /\ hs[h].pc = "cv_reject" =>
                  ~ExactPass(ca, votes, prop.action_type)

\* C12: every evaluation uses the roster as it is at the time of that
\* evaluation.
C12_LiveRoster == []C12_Counted /\ C12_Fetch

\* C12, its case: administrator 1 voted yes and is no longer in the list; the
\* owner's no is evaluated against the owner alone and the proposal is about
\* to be rejected, the yes of administrator 1 adding nothing
C12_Witness ==
    /\ hs[1].pc = "cv_reject"
    /\ hs[1].current_admins = {OwnerUser}
    /\ ~IsBlacklist(prop.action_type)
    /\ votes[1] = "yes"
    /\ votes[OwnerUser] = "no"

(***************************************************************************)
(* Claims about expiry.                                                    *)
(***************************************************************************)
\* C13 (1): a cast that has fetched the pending proposal at an age of more
\* than 30 days sets the status to expired, writes no ballot, does not go on to
\* the evaluation and replies that the proposal expired; at 30 days or less it
\* leaves the status alone, writes its ballot and goes on to the evaluation.
C13_CastStep ==
    [][\A h \in Handlers :
          (hs[h].pc = "cv_write" /\ hs'[h] # hs[h]) =>
              IF age > ExpiryDays * 24
              THEN /\ status = "pending" /\ status' = "expired"
                   /\ votes' = votes
                   /\ hs'[h].pc \in {"idle", "vc_except"}
                   /\ sent' = "expired"
              ELSE /\ status' = status
                   /\ votes'[hs[h].uid] = hs[h].vote
                   /\ hs'[h].pc = "cv_roster"
                   /\ sent' # "expired"]_vars

\* C13 (2): no proposal is expired at an age of 30 days or less.
C13_NotBefore == status = "expired" => age > ExpiryDays * 24

\* C13: lazy expiry on a cast.
C13_LazyExpiry == []C13_NotBefore /\ C13_CastStep

\* C13, its case: a cast on a proposal of more than 30 days found it pending,
\* expired it and said so; the only ballot is still the owner's yes
C13_Witness ==
    /\ status = "expired"
    /\ sent = "expired"
    /\ age > ExpiryDays * 24
    /\ votes[1] = "none"
    /\ votes[OwnerUser] = "yes"
    /\ hs[1] = Idle

\* C14: a proposal that is pending more than 30 days after its creation
\* eventually leaves pending (the sweep expires it), whether or not anybody
\* casts a ballot on it again.
C14_SweepExpires ==
    (status = "pending" /\ age > ExpiryDays * 24) ~> (status \in Terminal)

(***************************************************************************)
(* Claims about the ballots.                                               *)
(***************************************************************************)
\* C15 (1): a cast that is accepted leaves the voter's row holding the choice
\* just cast, whatever it held, and no other row changes: one ballot per
\* voter, the last writer's.
C15_Replace ==
    [][\A h \in Handlers :
          (hs[h].pc = "cv_write" /\ hs'[h].pc = "cv_roster") =>
              /\ votes'[hs[h].uid] = hs[h].vote
              /\ \A u \in Users \ {hs[h].uid} : votes'[u] = votes[u]]_vars

\* C15 (2): an evaluation decides on the choices stored when it reads them:
\* it goes on to execute only if the stored yes ballots of its roster weigh 50
\* or more, and to reject only if they do not.
C15_Counted ==
    [][\A h \in Handlers :
          hs[h].pc = "cv_score" =>
              /\ hs'[h].pc = "ex_effect" =>
                    ExactPass(hs[h].current_admins, votes, prop.action_type)
              /\ hs'[h].pc = "cv_reject" =>
                    ~ExactPass(hs[h].current_admins, votes, prop.action_type)]_vars

\* C15: one ballot per voter, revisable, last writer wins.
C15_LastWriterWins == C15_Replace /\ C15_Counted

\* C15, its case: two casts of administrator 1 in flight together, a yes and
\* a no, both written; the row holds the no and a handler is about to decide
C15_Witness ==
    /\ hs[1].uid = 1 /\ hs[1].vote = "yes" /\ hs[1].pc = "cv_count"
    /\ hs[2].uid = 1 /\ hs[2].vote = "no" /\ hs[2].pc \in {"cv_score", "cv_reject"}
    /\ votes[1] = "no"

FirstEvaluated ==
    status = "pending" => \E u \in Eligible(roster) : votes[u] = "none"

C17_RosterFailure ==
    [][\A h \in Handlers :
          /\ hs[h].pc = "cv_roster" =>
                /\ status' = status
                /\ effects' = effects
                /\ hs'[h].pc \in {"cv_roster", "cv_count", "idle", "vc_except"}
                /\ hs'[h].pc = "cv_count" => hs'[h].current_admins = roster
          /\ hs[h].pc = "vc_except" =>
                (status' = status /\ effects' = effects)]_vars

\* C17, its case: the owner and administrator 1 both voted no, the ballot was
\* acknowledged, and the cast has ended with the proposal still pending: with
\* any roster fetched, the empty one included, it would have been rejected
C17_Witness ==
    /\ hs[1] = Idle
    /\ status = "pending"
    /\ sent = "saved"
    /\ roster = {1, OwnerUser}
    /\ votes[1] = "no"
    /\ votes[OwnerUser] = "no"

\* C18: a cast that fails because the store or the roster is unavailable
\* leaves the ballots and the status as they were before the call.  The call
\* is the voter's first on a pending proposal, so before it the voter has no
\* row; it fails when it gets no connection, when the roster fetch raises, or
\* when execute_proposal gets no connection.
C18_AbortsClean ==
    [][\A h \in Handlers :
          (\/ hs[h].pc = "idle" /\ sent' = "db_error"
           \/ hs[h].pc = "cv_roster" /\ hs'[h].pc = "idle"
           \/ hs[h].pc = "cv_score" /\ hs'[h].pc = "idle")
          => (votes'[prop.proposer_id] = "none" /\ status' = "pending")]_vars

\* C19: a proposal is passed only if its effect was applied to the store
\* exactly once.
C19_PassedOnlyWithEffect == status = "passed" => effects = 1

(***************************************************************************)
(* Claims about ping_voters.                                               *)
(***************************************************************************)
\* C20 (1): only a ping of the proposer gets as far as the roster, the
\* reminders and the stamp.
C20_OnlyProposer ==
    \A h \in Handlers :
        hs[h].pc \in {"pg_chat", "pg_send", "pg_stamp"} =>
            hs[h].uid = prop.proposer_id

\* C20 (2): a reminder is sent or last_pinged_at written only by a step of a
\* ping that the proposer requested; the step that refuses a ping leaves the
\* reminders, last_pinged_at, the status and the ballots as they were; and no
\* step of a ping changes the status or the ballots.
C20_RefusalStep ==
    [][/\ (reminded' # reminded \/ last_pinged_at' # last_pinged_at) =>
             \E h \in Handlers : /\ hs[h].pc \in {"pg_send", "pg_stamp"}
                                 /\ hs[h].uid = prop.proposer_id
                                 /\ hs'[h] # hs[h]
       /\ (sent # "forbidden" /\ sent' = "forbidden") =>
             /\ reminded' = reminded /\ last_pinged_at' = last_pinged_at
             /\ status' = status /\ votes' = votes /\ hs' = hs
       /\ (status' = status /\ votes' = votes)]_vars

\* C20: a ping by a requester who is not the proposer fails and changes
\* nothing.
C20_PingForbidden == []C20_OnlyProposer /\ C20_RefusalStep

\* C20, its case: administrator 1 proposed, the owner has no ballot and asked
\* for a ping: the ping was refused, no reminder went out and nothing was
\* stamped
C20_Witness ==
    /\ status = "pending"
    /\ prop.proposer_id = 1
    /\ OwnerUser \in roster
    /\ votes[OwnerUser] = "none"
    /\ sent = "forbidden"
    /\ reminded = {}
    /\ last_pinged_at = Never
    /\ hs[1] = Idle

\* the replies that only a /ping of the proposer on a pending proposal gets
PingReplies == {"cooldown", "no_group", "everyone", "reminders"}

\* C21, as claimed: two pings of the proposer while the proposal is less than
\* 24 hours old are less than 24 hours apart; once the first was answered, the
\* second does not get past the cooldown check and sends no reminder.
C21_SecondPingRefused ==
    [][(/\ status = "pending"
        /\ age < CooldownHours
        /\ sent \in PingReplies
        /\ hs[1] = Idle)
       => (hs'[1] = Idle /\ reminded' = reminded)]_vars

\* C21: while the proposal is pending and a ping stamped last_pinged_at less
\* than 24 hours ago, no ping gets past the cooldown check, no reminder is
\* sent, the stamp stays, and a ping is answered with the cooldown error (with
\* the database error when there is no connection, with the proposer-only
\* error when another user asked).
C21_Cooldown ==
    [][(status = "pending" /\ InCooldown) =>
          /\ hs'[1] = Idle
          /\ reminded' = reminded
          /\ last_pinged_at' = last_pinged_at
          /\ sent' \in {sent, "cooldown", "db_error", "forbidden"}]_vars

\* C21, its case: the proposer's ping sent a reminder and stamped the row;
\* the proposer pinged again within 24 hours and got the cooldown error
C21_Witness ==
    /\ status = "pending"
    /\ InCooldown
    /\ reminded # {}
    /\ sent = "cooldown"
    /\ hs[1] = Idle

(***************************************************************************)
(* Claims about cancel_proposal.                                           *)
(***************************************************************************)
\* a step of a /cancel: its fetch, its UPDATE, or the reply that refuses it
CancelStep ==
    \/ hs[1].pc = "cn_write"
    \/ hs'[1].pc = "cn_write"
    \/ /\ hs[1] = Idle /\ hs'[1] = Idle /\ sent' # sent
       /\ sent' \in {"db_error", "error", "invalid_id", "not_yours"}

\* C22 (1): a /cancel gets to its UPDATE only while the proposal is pending
\* and for its proposer.
C22_Gate ==
    hs[1].pc = "cn_write" =>
        (status = "pending" /\ hs[1].uid = prop.proposer_id)

\* C22 (2): the status becomes cancelled only by the UPDATE of such a /cancel;
\* every other step of a /cancel leaves the status as it is; no step of a
\* /cancel applies the effect or changes a ballot.
C22_Steps ==
    [][/\ (status' = "cancelled" /\ status # "cancelled") =>
             /\ hs[1].pc = "cn_write"
             /\ status = "pending"
             /\ hs[1].uid = prop.proposer_id
       /\ CancelStep =>
             /\ effects' = effects
             /\ votes' = votes
             /\ (status' # status => (hs[1].pc = "cn_write" /\ status' = "cancelled"))]_vars

\* C22: cancel_proposal sets cancelled only on a pending proposal and for its
\* proposer, leaves the status unchanged in every other case, and never
\* applies the effect or changes ballots.
C22_CancelOnlyByProposer == []C22_Gate /\ C22_Steps

\* C22, its case: the owner's cancel of administrator 1's proposal was
\* refused and the proposal is still pending with its ballot
C22_Witness ==
    /\ status = "pending"
    /\ prop.proposer_id = 1
    /\ votes[1] = "yes"
    /\ OwnerUser \in roster
    /\ sent = "not_yours"
    /\ effects = 0
    /\ hs[1] = Idle

\* C22, its other case: the proposer's cancel went through, the ballots stay
\* and no effect was applied
C22_WitnessCancelled ==
    /\ status = "cancelled"
    /\ sent = "cancelled"
    /\ votes[prop.proposer_id] = "yes"
    /\ effects = 0

(***************************************************************************)
(* Claims about what the messages tell.                                    *)
(***************************************************************************)
\* C23: two runs of the same commands that differ only in the voters'
\* choices and end in the same outcome (both passed or both rejected) sent
\* the same messages, command by command.
C23_SameOutcomeSameMessages ==
    (/\ twin.phase = "done"
     /\ status \in {"passed", "rejected"}
     /\ twin.out = status)
    => twin.first = twin.second

\* the script has a command during which execute_proposal got no connection
ScriptDropsExecution ==
    \E i \in 1..Len(twin.script) : twin.script[i].env = "no_conn"

\* C23, in the runs where execute_proposal always gets its connection
C23_SameMessagesWhenExecuted ==
    (/\ twin.phase = "done"
     /\ status \in {"passed", "rejected"}
     /\ twin.out = status
     /\ ~ScriptDropsExecution)
    => twin.first = twin.second

\* the two runs ended in the same outcome with different choices on the way
C23_Compared ==
    /\ twin.phase = "done"
    /\ status = "passed"
    /\ twin.out = status
    /\ \E i \in 1..Len(twin.script) : twin.script[i].a # twin.script[i].b

(***************************************************************************)
(* Claims about failed notifications.                                      *)
(***************************************************************************)
\* the outcome broadcast of handler h raised: the handler is in vote_command's
\* except clause and the last message attempted is the broadcast
BroadcastFailed(h) ==
    hs[h].pc = "vc_except" /\ sent \in {"passed", "rejected"}

\* C24 (1): when the broadcast raises, the status is the one just set.
C24_StatusAsSet == \A h \in Handlers : BroadcastFailed(h) => status = sent

\* C24 (2): from then on no step changes the status or the number of times
\* the effect was applied: not the except clause, not a later command.
C24_Kept ==
    [][(status \in {"passed", "rejected"}) =>
          (status' = status /\ effects' = effects)]_vars

\* C24: a failed outcome broadcast never rolls back the transition or the
\* effect.
C24_NoRollback == []C24_StatusAsSet /\ C24_Kept

\* C24, its case: the broadcast of a passed blacklist proposal raised, the
\* voter was told of the error, the proposal is passed and its effect applied
C24_Witness ==
    /\ status = "passed"
    /\ IsBlacklist(prop.action_type)
    /\ effects = 1
    /\ sent = "error"
    /\ hs[1] = Idle

\* C25: a notification that fails does not end the operation in progress: a
\* handler that has sent the creation confirmation goes on to the roster and
\* the automatic ballot, and a handler that has written a ballot and sent its
\* acknowledgment goes on to the evaluation (or ends because the roster fetch
\* failed), never into vote_command's except clause.
C25_NotificationsNonFatal ==
    [][\A h \in Handlers :
          /\ (hs[h].pc = "cr_notify" /\ hs'[h] # hs[h]) =>
                hs'[h].pc = "cr_roster"
          /\ (hs[h].pc = "cv_roster" /\ hs'[h] # hs[h]) =>
                hs'[h].pc # "vc_except"]_vars

(***************************************************************************)
(* Claims about the commands that are refused.                             *)
(***************************************************************************)
\* C26: while there is no row of that id or its status is not pending, a
\* /vote starts no cast: no ballot is written, the status stays, no handler
\* gets to the roster or the score, and no effect is applied.
C26_RefusedCast ==
    [][(status # "pending" /\ hs[1] = Idle) =>
          /\ votes' = votes
          /\ status' = status
          /\ effects' = effects
          /\ hs' = hs]_vars

\* C26, its case: a /vote on a rejected proposal was answered 'invalid or
\* closed'
C26_Witness ==
    /\ status = "rejected"
    /\ sent = "closed"
    /\ hs[1] = Idle

\* C26, its other case: a /vote on an id that has no row
C26_WitnessNoRow ==
    /\ status = "absent"
    /\ sent = "closed"
    /\ votes = NoVotes

\* a proposal for an owner-only key is inserted by this step
OwnerOnlyInsert ==
    /\ status = "absent"
    /\ status' = "pending"
    /\ prop'.action_type = "config"
    /\ prop'.key_target \in OWNER_ONLY_CONFIGS

\* the step that answers 'Denied' leaves the row, the ballots and the handler
\* as they were: nothing is inserted, recorded or announced
DeniedStep ==
    (sent # "denied" /\ sent' = "denied") =>
        (status' = status /\ prop' = prop /\ votes' = votes /\ hs' = hs)

\* C27, as claimed: a proposal for an owner-only key is inserted only for a
\* requester who is the group's owner, and a request that is denied inserts,
\* records and announces nothing.
C27_OnlyOwner ==
    [][/\ OwnerOnlyInsert =>
             (prop'.proposer_id = OwnerUser /\ OwnerUser \in roster)
       /\ DeniedStep]_vars

\* C27: a proposal for an owner-only key is inserted only for a requester who
\* is the group's owner or the bot's creator, and a request that is denied
\* inserts, records and announces nothing.
C27_OnlyOwnerOrCreator ==
    [][/\ OwnerOnlyInsert =>
             \/ prop'.proposer_id = OwnerUser /\ OwnerUser \in roster
             \/ prop'.proposer_id = BOT_CREATOR_ID
       /\ DeniedStep]_vars

\* C27, its case: administrator 1 asked for /config engagement_tracking and
\* was denied: there is no row and no ballot
C27_Witness ==
    /\ 1 \in roster
    /\ status = "absent"
    /\ sent = "denied"
    /\ votes = NoVotes
    /\ hs[1] = Idle

(***************************************************************************)
(* Claims about create_proposal.                                           *)
(***************************************************************************)
\* the positions of cast_vote after the ballot is written
AfterBallot == {"cv_roster", "cv_count", "cv_score", "cv_reject", "ex_effect",
                "ex_status"}

\* C30 (1): the automatic cast of create_proposal is the proposer's, and once
\* it has written its ballot the proposer's ballot is yes and no other user
\* has one.
C30_OneYes ==
    \A h \in Handlers :
        (hs[h].auto /\ hs[h].pc \in AfterBallot) =>
            /\ hs[h].uid = prop.proposer_id
            /\ votes[prop.proposer_id] = "yes"
            /\ \A u \in Users \ {prop.proposer_id} : votes[u] = "none"

\* C30 (2): the row is inserted as pending; the automatic cast takes the
\* steps of any cast; its evaluation counts against the administrator list
\* as the platform has it at the fetch; and the handler ends only after that
\* evaluation unless a call failed before (confirmation, roster, store).
C30_Steps ==
    [][\A h \in Handlers :
          /\ (status = "absent" /\ status' # "absent") =>
                (status' = "pending" /\ votes' = NoVotes)
          /\ (hs[h].auto /\ hs[h].pc = "cv_roster" /\ hs'[h].pc = "cv_count") =>
                hs'[h].current_admins = roster
          /\ (hs[h].auto /\ hs[h].pc = "cv_write" /\ hs'[h] # hs[h]) =>
                hs'[h].pc = "cv_roster"
          /\ (hs[h].auto /\ hs[h].pc = "cv_count" /\ hs'[h] = Idle) =>
                (status' = "pending" /\ missing(votes, hs[h].current_admins) > 0)]_vars

\* C30: create_proposal inserts a pending proposal and casts the proposer's
\* yes through cast_vote; when it completes the proposer has one ballot, yes,
\* and the evaluation has run against the live roster.
C30_CreateCastsYes == []C30_OneYes /\ C30_Steps

\* C30, its case: the owner created a config proposal while administrator 1 is
\* in the list: the automatic yes is stored, the evaluation found
\* administrator 1 missing and the proposal is pending
C30_Witness ==
    /\ status = "pending"
    /\ prop.proposer_id = OwnerUser
    /\ roster = {1, OwnerUser}
    /\ votes[OwnerUser] = "yes"
    /\ votes[1] = "none"
    /\ sent = "created"
    /\ hs[1] = Idle

(***************************************************************************)
(* Claims about governance.py.                                             *)
(***************************************************************************)
\* C28: once the decision is closed or past expires_at, no step inserts or
\* changes a vote row of it, whenever the cast_vote that takes the step
\* started.
C28_NoVoteAfterClose ==
    [][(decision.status = "closed" \/ decision.due) =>
          /\ decision'.vote_value = decision.vote_value
          /\ decision'.weight = decision.weight]_vars

\* C29: once a voter's weight is stored, no step changes it, a re-cast by the
\* same voter included, and so what get_decision_results sums for that voter
\* stays.
C29_WeightImmutable ==
    [][/\ \A v \in GovVoters :
             decision.vote_value[v] # "none" =>
                 decision'.weight[v] = decision.weight[v]
       /\ decision'.vote_value = decision.vote_value =>
             get_decision_results(decision') = get_decision_results(decision)]_vars

(***************************************************************************)
(* Claims about what a ballot holds and who is eligible.                   *)
(***************************************************************************)
\* C31: the choice stored in every ballot is yes or no: a cast with any
\* other word is not recorded.
C31_ChoicesOnly == \A u \in Users : votes[u] \in Choices \cup {"none"}

\* the ballots with a yes of the bot account added
WithBotYes(vts) == [vts EXCEPT ![BotUser] = "yes"]

\* the scores the for loop may reach over the rows of vts
Scores(vts, ca, t) == {score_yes(rows, ca, t) : rows \in all_votes(vts)}

\* C32: in an evaluation whose administrator list holds a bot, the bot is not
\* required for attendance (the count of missing voters is the one of the list
\* without the bot, with or without a ballot of the bot), a yes of the bot
\* adds nothing to score_yes, and the weights are those of the list without
\* the bot (the bot is not counted in A).
C32_BotsNotEligible ==
    (hs[1].pc \in {"cv_count", "cv_score"} /\ BotUser \in hs[1].current_admins) =>
        LET ca   == hs[1].current_admins
            less == ca \ {BotUser}
            t    == prop.action_type
        IN  /\ missing(votes, ca) = missing(votes, less)
            /\ missing(WithBotYes(votes), ca) = missing(votes, ca)
            /\ RowWeight(BotUser, "yes", ca, t) = FZero
            /\ Scores(WithBotYes(votes), ca, t) = Scores(votes, ca, t)
            /\ admin_pool_count(ca) = admin_pool_count(less)
            /\ admin_weight(ca, t) = admin_weight(less, t)
            /\ owner_weight(ca, t) = owner_weight(less, t)

\* C32, its case: the list holds the owner, two administrators and a bot;
\* the bot has no ballot and the evaluation is past the attendance gate
C32_Witness ==
    /\ hs[1].pc = "cv_score"
    /\ hs[1].current_admins = {1, 2, OwnerUser, BotUser}
    /\ votes[BotUser] = "none"

(***************************************************************************)
(* Claims about the sweep of governance.py and about weights.py.           *)
(***************************************************************************)
\* a step that is a run of expire_governance_decisions
IsRun == Len(decision'.returned) = Len(decision.returned) + 1

\* a run closes exactly the rows that were active and past expires_at,
\* returns exactly their ids and leaves every other row as it was
RunExact ==
    IsRun =>
        LET expired == {id \in DecisionIds : decision.rows[id].status = "active"
                                              /\ decision.rows[id].due}
        IN  /\ decision'.returned[Len(decision'.returned)] = expired
            /\ \A id \in expired : decision'.rows[id].status = "closed"
            /\ \A id \in DecisionIds \ expired :
                   decision'.rows[id] = decision.rows[id]

\* a closed decision stays closed
ClosedStays ==
    \A id \in DecisionIds :
        decision.rows[id].status = "closed" => decision'.rows[id].status = "closed"

\* no id is in what two runs returned
ReturnedOnce ==
    \A i, j \in DOMAIN decision.returned :
        i # j => decision.returned[i] \cap decision.returned[j] = {}

\* C33: each run of expire_governance_decisions closes exactly the decisions
\* that are active with expires_at earlier than now and returns exactly their
\* ids; an id is returned by at most one run, a closed decision never becomes
\* active again, and the decisions not yet expired are left unchanged.
C33_SweepExact == []ReturnedOnce /\ [][RunExact /\ ClosedStays]_vars

\* C33, its case: a run returned two ids while a third decision, active and
\* not yet expired, was left active, and a later run returned nothing
C33_Witness ==
    /\ Len(decision.returned) = 2
    /\ decision.returned[1] = {1, 2}
    /\ decision.returned[2] = {}
    /\ decision.rows[3].status = "active"
    /\ decision.rows[1].status = "closed"

\* the sum of the returned weights as an exact number (the limbs added
\* without rounding); the admins' weights are equal
ReturnedTotal ==
    LET w  == sent.weights
        A  == sent.all_admins
        n  == Cardinality(A)
        ow == IF sent.owner_id = None THEN FZero ELSE w[sent.owner_id]
        aw == IF A = {} THEN FZero ELSE w[CHOOSE a \in A : TRUE]
    IN  FNorm(ow[1] + n * aw[1], ow[2] + n * aw[2], ow[3] + n * aw[3])

RECURSIVE FSum(_, _, _)
\* x + w + ... + w (n times) on floats, one addition after the other
FSum(x, w, n) == IF n = 0 THEN x ELSE FSum(FAdd(x, w), w, n - 1)

\* the sum of the returned weights as Python adds them, in the order of the
\* dictionary (the owner first)
ReturnedFloatSum ==
    LET w  == sent.weights
        A  == sent.all_admins
        ow == IF sent.owner_id = None THEN FZero ELSE w[sent.owner_id]
        aw == IF A = {} THEN FZero ELSE w[CHOOSE a \in A : TRUE]
    IN  FSum(ow, aw, Cardinality(A))

\* what the claim says of each shape of group but the sum
WeightShape ==
    LET w == sent.weights
        A == sent.all_admins
        o == sent.owner_id
    IN  /\ DOMAIN w = A \cup (IF o = None THEN {} ELSE {o})
        /\ \A a, b \in A : w[a] = w[b]
        /\ (o # None /\ A # {}) => w[o] = WHalf
        /\ (o # None /\ A = {}) => w[o] = WOne

\* C34 as stated: for a group with an owner or an admin the returned weights
\* sum to 1 (as an exact number, or as Python adds them); the owner gets 0.5
\* beside admins and 1 alone, the admins have equal weights, and with neither
\* the result is empty.
C34_SumExactlyOne ==
    (sent.called /\ DOMAIN sent.weights # {}) =>
        /\ WeightShape
        /\ ReturnedTotal = WOne \/ ReturnedFloatSum = WOne

\* C34 as amended: the same, the sum being 1 up to the rounding of the
\* quotient 1 / n or 0.5 / n: it differs from 1 by at most n * 2^-54 for n
\* admins.
C34_SumNearOne ==
    sent.called =>
        LET tol == (WScale \div 2) * Cardinality(sent.all_admins)
        IN  /\ WeightShape
            /\ DOMAIN sent.weights # {} =>
                   /\ FGeq(FPlus(ReturnedTotal, tol), WOne)
                   /\ FGeq(FPlus(WOne, tol), ReturnedTotal)

\* C34, its case: a call for a group with an owner and three admins
C34_Witness ==
    /\ sent.called
    /\ sent.owner_id = OwnerUser
    /\ sent.all_admins = {1, 2, 3}
    /\ sent.weights[1] = FDiv(WScale \div 2, 3)

StatusWriters == {"cv_write", "cv_reject", "ex_status", "cn_write"}

\* C36: a step that changes the roster changes nothing of the proposal, its
\* ballots, its effect or the messages; the status of an existing proposal
\* changes only in a step of cast_vote (or of execute_proposal, which it
\* calls) or of cancel_proposal.
C36_RosterFrame ==
    [][/\ roster' # roster => UNCHANGED <<status, prop, votes, effects, sent, hs>>
       /\ (status # "absent" /\ status' # status) =>
              \E h \in Handlers : hs[h].pc \in StatusWriters /\ hs'[h] # hs[h]]_vars

\* C36, its case: the owner's cast fetched a list in which administrator 1,
\* who has no ballot, was still a member, so it is about to return at the
\* gate; administrator 1 has left since: nobody of the roster is missing and
\* the proposal is pending
C36_Witness ==
    /\ status = "pending"
    /\ hs[1].pc = "cv_count"
    /\ hs[1].current_admins = {1, OwnerUser}
    /\ votes[OwnerUser] = "yes" /\ votes[1] = "none"
    /\ roster = {OwnerUser}
    /\ missing(votes, roster) = 0

\* an evaluation whose fetched list holds neither the owner nor a non-bot
\* administrator
NoVoterList(h) ==
    /\ hs[h].pc \in {"cv_count", "cv_score", "cv_reject", "ex_effect", "ex_status"}
    /\ Eligible(hs[h].current_admins) = {}

\* in such an evaluation nobody is missing, every order of the rows gives
\* score_yes = 0, and execute_proposal is not entered
C37_Inv ==
    \A h \in Handlers :
        NoVoterList(h) =>
            /\ missing(votes, hs[h].current_admins) = 0
            /\ Scores(votes, hs[h].current_admins, prop.action_type) = {FZero}
            /\ hs[h].pc \notin {"ex_effect", "ex_status"}

\* its steps go from the gate to the score, from the score to the rejection,
\* and the rejection sets the status
C37_Steps ==
    [][\A h \in Handlers :
          (NoVoterList(h) /\ hs'[h] # hs[h]) =>
              /\ hs[h].pc = "cv_count" => hs'[h].pc = "cv_score"
              /\ hs[h].pc = "cv_score" => hs'[h].pc = "cv_reject"
              /\ hs[h].pc = "cv_reject" => status' = "rejected"]_vars

\* C37: a cast evaluated against a list with no non-bot administrator and no
\* owner passes the attendance gate with zero missing voters, scores 0 and
\* sets the proposal to rejected.
C37_NoVoterRejected == []C37_Inv /\ C37_Steps

\* C37, its case: the only ballot is a yes of administrator 1, the list holds
\* the bot alone, and the proposal has just been set to rejected
C37_Witness ==
    /\ status = "rejected"
    /\ sent = "rejected"
    /\ votes[1] = "yes"
    /\ votes[OwnerUser] = "none"
    /\ roster = {BotUser}
    /\ effects = 0

(***************************************************************************)
(* Claims about old proposals, overlapping handlers and outside voters.    *)
(***************************************************************************)
\* the positions of ping_voters and cancel_proposal
PingOrCancel == {"pg_chat", "pg_send", "pg_stamp", "cn_write"}

\* C38: only a step of cast_vote sets the status to expired; on a pending
\* proposal older than 30 days cancel_proposal sets the status to cancelled
\* and ping_voters stamps the ping and reports its reminders, and no step of
\* either sets the status to expired.
C38_OnlyCastChecksAge ==
    [][/\ (status' = "expired" /\ status # "expired") => hs[1].pc = "cv_write"
       /\ (age > ExpiryHours /\ hs'[1] # hs[1]) =>
              /\ hs[1].pc = "cn_write" => status' = "cancelled"
              /\ hs[1].pc = "pg_stamp" =>
                     (sent' = "reminders" /\ last_pinged_at' = age)
              /\ hs[1].pc \in PingOrCancel => status' # "expired"]_vars

\* C38, its case: a proposal older than 30 days was pinged, reminders going
\* out, and then cancelled
C38_Witness ==
    /\ status = "cancelled"
    /\ last_pinged_at > ExpiryHours
    /\ reminded # {}
    /\ sent = "cancelled"

\* C39: under any interleaving of cast_vote and cancel_proposal handlers, a
\* proposal whose status is rejected, cancelled or expired has not had its
\* execution effect applied.
C39_NoEffectUnlessPassed ==
    status \in {"rejected", "cancelled", "expired"} => effects = 0

\* the ballots without the one of u
Without(vts, u) == [vts EXCEPT ![u] = "none"]

\* a cast on a pending proposal of 30 days or less stores its ballot, whether
\* or not its voter is in the roster, and goes on to the evaluation
C40_Stored ==
    [][\A h \in Handlers :
          (hs[h].pc = "cv_write" /\ hs'[h] # hs[h] /\ age <= ExpiryHours) =>
              /\ votes'[hs[h].uid] = hs[h].vote
              /\ hs'[h].pc = "cv_roster"]_vars

\* in an evaluation the ballot of a voter outside the fetched list changes
\* neither the count of missing voters nor the score; the ballot of a voter
\* inside it, whenever it was cast, is one of the valid votes, and the
\* evaluation goes on to execute exactly if the yes ballots of the list's
\* members, with the weights of that list, reach 50
C40_Counted ==
    \A h \in Handlers :
        LET ca == hs[h].current_admins
            t  == prop.action_type
        IN  hs[h].pc \in {"cv_count"} \cup PastGate =>
              /\ \A u \in People \ ca :
                    /\ missing(votes, ca) = missing(Without(votes, u), ca)
                    /\ Scores(votes, ca, t) = Scores(Without(votes, u), ca, t)
              /\ \A u \in Eligible(ca) :
                    votes[u] # "none" =>
                        valid_votes_count(votes, ca)
                          = valid_votes_count(Without(votes, u), ca) + 1
              /\ hs[h].pc \in {"ex_effect", "ex_status"} => ExactPass(ca, votes, t)
              /\ hs[h].pc = "cv_reject" => ~ExactPass(ca, votes, t)

\* C40: cast_vote stores a ballot from any user on a pending, unexpired
\* proposal without checking roster membership and goes on to an evaluation;
\* the ballot has no influence on attendance or score while its voter is
\* outside the roster, and is counted with the voter's weight in that roster
\* in any evaluation whose roster holds the voter.
C40_OutsideBallot == []C40_Counted /\ C40_Stored

\* C40, its case: administrator 1 is not in the roster; the yes of their
\* cast is stored and the evaluation of that cast is at the gate with a list
\* that holds the owner alone, who has no ballot
C40_Witness ==
    /\ hs[1].pc = "cv_count"
    /\ hs[1].uid = 1
    /\ hs[1].current_admins = {OwnerUser}
    /\ roster = {OwnerUser}
    /\ votes[1] = "yes"
    /\ votes[OwnerUser] = "none"
    /\ status = "pending"
====
